---- MODULE Spec2Model ----
(***************************************************************************)
(* Model of the abi-decoder toolkit (dericklau3/abi-decoder): the ABI      *)
(* manager page, the contract-interaction page and the pure text helpers   *)
(* they share.                                                             *)
(*                                                                         *)
(* A text (a JavaScript string) is a sequence of lexical units.  A unit is *)
(* either one character ("[", ",", a space, a quote ...) or one word that  *)
(* no helper here ever splits ("true", "abi", a function signature).       *)
(* JSON.parse, JSON.stringify and String.prototype.trim are computed on    *)
(* these sequences.                                                        *)
(***************************************************************************)
EXTENDS Integers, Sequences, FiniteSets, TLC

(***************************************************************************)
(* Lexical units                                                           *)
(***************************************************************************)
Q == "\""

EQ == "\\\""

\* escaped line break, and the escaped forms of the two escapes themselves
ENL == "\\n"

EEQ == "\\\\\\\""

EENL == "\\\\n"

SP == " "

NL == "\n"

Digits == {"1", "2"}

IsWs(u) == u \in {SP, NL}

RECURSIVE TrimStart(_)
TrimStart(s) ==
    IF s = <<>> THEN <<>>
    ELSE IF IsWs(Head(s)) THEN TrimStart(Tail(s)) ELSE s

RECURSIVE TrimEnd(_)
TrimEnd(s) ==
    IF s = <<>> THEN <<>>
    ELSE IF IsWs(s[Len(s)]) THEN TrimEnd(SubSeq(s, 1, Len(s) - 1)) ELSE s

\* String.prototype.trim
Trim(s) == TrimEnd(TrimStart(s))

\* String.prototype.startsWith, for a one-unit prefix
StartsWith(s, u) == s # <<>> /\ Head(s) = u

(***************************************************************************)
(* JavaScript values produced by JSON.parse.  One record shape for every   *)
(* type: t is the type tag, txt the units of a string / number / literal,  *)
(* items the elements of an array or the member values of an object, keys  *)
(* the member names of an object (aligned with items, insertion order).    *)
(***************************************************************************)
JNull == [t |-> "null", txt |-> <<"null">>, items |-> <<>>, keys |-> <<>>]

JBool(b) ==
    [t |-> "bool", txt |-> <<IF b THEN "true" ELSE "false">>,
     items |-> <<>>, keys |-> <<>>]

JNum(ds) == [t |-> "num", txt |-> ds, items |-> <<>>, keys |-> <<>>]

JStr(cs) == [t |-> "str", txt |-> cs, items |-> <<>>, keys |-> <<>>]

JArr(xs) == [t |-> "arr", txt |-> <<>>, items |-> xs, keys |-> <<>>]

JObj(ks, vs) == [t |-> "obj", txt |-> <<>>, items |-> vs, keys |-> ks]

IsArray(v) == v.t = "arr"

IsString(v) == v.t = "str"

HasKey(v, k) == v.t = "obj" /\ \E i \in 1..Len(v.keys) : v.keys[i] = k

Member(v, k) == v.items[CHOOSE i \in 1..Len(v.keys) : v.keys[i] = k]

\* An object literal keeps one member per name: a repeated name overwrites
\* the value and keeps the position of the first occurrence.
PutMember(ks, vs, k, v) ==
    IF \E i \in 1..Len(ks) : ks[i] = k
    THEN LET i == CHOOSE j \in 1..Len(ks) : ks[j] = k
         IN  [keys |-> ks, items |-> [vs EXCEPT ![i] = v]]
    ELSE [keys |-> Append(ks, k), items |-> Append(vs, v)]

(***************************************************************************)
(* JSON.parse: recursive descent over the units.                           *)
(***************************************************************************)
ParseFail == [ok |-> FALSE, v |-> JNull, rest |-> <<>>]

ParseOk(v, rest) == [ok |-> TRUE, v |-> v, rest |-> rest]

RECURSIVE SkipWs(_)
SkipWs(s) ==
    IF s = <<>> THEN <<>>
    ELSE IF IsWs(Head(s)) THEN SkipWs(Tail(s)) ELSE s

\* The character(s) an escape sequence inside a string literal stands for.
UnescapeUnit(u) ==
    CASE u = EQ -> Q
      [] u = ENL -> NL
      [] u = EEQ -> EQ
      [] u = EENL -> ENL
      [] OTHER -> u

\* The body of a string literal, after its opening quote: up to the closing
\* quote; escape sequences are decoded; a raw line break is not allowed.
RECURSIVE ScanString(_, _)
ScanString(s, acc) ==
    IF s = <<>> THEN ParseFail
    ELSE IF Head(s) = Q THEN ParseOk(JStr(acc), Tail(s))
    ELSE IF Head(s) = NL THEN ParseFail
    ELSE ScanString(Tail(s), Append(acc, UnescapeUnit(Head(s))))

RECURSIVE ScanDigits(_, _)
ScanDigits(s, acc) ==
    IF s # <<>> /\ Head(s) \in Digits
    THEN ScanDigits(Tail(s), Append(acc, Head(s)))
    ELSE ParseOk(JNum(acc), s)

RECURSIVE ParseValue(_)
RECURSIVE ParseElements(_, _)
RECURSIVE ParseMembers(_, _, _)

ParseValue(s0) ==
    LET s == SkipWs(s0)
    IN  IF s = <<>> THEN ParseFail
        ELSE LET u == Head(s)
                 r == Tail(s)
             IN  CASE u = "true" -> ParseOk(JBool(TRUE), r)
                   [] u = "false" -> ParseOk(JBool(FALSE), r)
                   [] u = "null" -> ParseOk(JNull, r)
                   [] u = Q -> ScanString(r, <<>>)
                   [] u \in Digits -> ScanDigits(s, <<>>)
                   [] u = "[" ->
                        IF StartsWith(SkipWs(r), "]")
                        THEN ParseOk(JArr(<<>>), Tail(SkipWs(r)))
                        ELSE ParseElements(r, <<>>)
                   [] u = "{" ->
                        IF StartsWith(SkipWs(r), "}")
                        THEN ParseOk(JObj(<<>>, <<>>), Tail(SkipWs(r)))
                        ELSE ParseMembers(r, <<>>, <<>>)
                   [] OTHER -> ParseFail

ParseElements(s, acc) ==
    LET e == ParseValue(s)
    IN  IF ~e.ok THEN ParseFail
        ELSE LET r == SkipWs(e.rest)
             IN  IF r = <<>> THEN ParseFail
                 ELSE IF Head(r) = "," THEN ParseElements(Tail(r), Append(acc, e.v))
                 ELSE IF Head(r) = "]" THEN ParseOk(JArr(Append(acc, e.v)), Tail(r))
                 ELSE ParseFail

ParseMembers(s, ks, vs) ==
    LET s1 == SkipWs(s)
    IN  IF ~StartsWith(s1, Q) THEN ParseFail
        ELSE LET k == ScanString(Tail(s1), <<>>)
             IN  IF ~k.ok THEN ParseFail
                 ELSE LET s2 == SkipWs(k.rest)
                      IN  IF ~StartsWith(s2, ":") THEN ParseFail
                          ELSE LET e == ParseValue(Tail(s2))
                               IN  IF ~e.ok THEN ParseFail
                                   ELSE LET r == SkipWs(e.rest)
                                            m == PutMember(ks, vs, k.v.txt, e.v)
                                        IN  IF r = <<>> THEN ParseFail
                                            ELSE IF Head(r) = ","
                                            THEN ParseMembers(Tail(r), m.keys, m.items)
                                            ELSE IF Head(r) = "}"
                                            THEN ParseOk(JObj(m.keys, m.items), Tail(r))
                                            ELSE ParseFail

\* JSON.parse(text): ok = FALSE stands for the SyntaxError it throws.
JsonParse(text) ==
    LET p == ParseValue(text)
    IN  IF p.ok /\ SkipWs(p.rest) = <<>>
        THEN [ok |-> TRUE, v |-> p.v]
        ELSE [ok |-> FALSE, v |-> JNull]

(***************************************************************************)
(* JSON.stringify(value, null, 2)                                          *)
(***************************************************************************)
RECURSIVE Spaces(_)
Spaces(n) == IF n <= 0 THEN <<>> ELSE <<SP>> \o Spaces(n - 1)

\* The escape sequence written for a character of a string (texts here
\* never hold an escape of an escape of an escape).
EscapeUnit(u) ==
    CASE u = Q -> EQ
      [] u = NL -> ENL
      [] u = EQ -> EEQ
      [] u = ENL -> EENL
      [] OTHER -> u

EscapeUnits(cs) == [i \in 1..Len(cs) |-> EscapeUnit(cs[i])]

Quoted(cs) == <<Q>> \o EscapeUnits(cs) \o <<Q>>

RECURSIVE Pretty(_, _)
RECURSIVE PrettyItems(_, _, _, _)

\* The elements (or members) i.. of a non-empty array (object), each on its
\* own line at depth d.
PrettyItems(v, i, d, isObj) ==
    LET key == IF isObj THEN Quoted(v.keys[i]) \o <<":", SP>> ELSE <<>>
        one == <<NL>> \o Spaces(2 * d) \o key \o Pretty(v.items[i], d)
    IN  IF i = Len(v.items) THEN one
        ELSE one \o <<",">> \o PrettyItems(v, i + 1, d, isObj)

Pretty(v, d) ==
    CASE v.t = "str" -> Quoted(v.txt)
      [] v.t = "arr" ->
           IF v.items = <<>> THEN <<"[", "]">>
           ELSE <<"[">> \o PrettyItems(v, 1, d + 1, FALSE)
                \o <<NL>> \o Spaces(2 * d) \o <<"]">>
      [] v.t = "obj" ->
           IF v.items = <<>> THEN <<"{", "}">>
           ELSE <<"{">> \o PrettyItems(v, 1, d + 1, TRUE)
                \o <<NL>> \o Spaces(2 * d) \o <<"}">>
      [] OTHER -> v.txt

JsonStringify2(v) == Pretty(v, 0)

\* JSON.stringify(value): the compact form
RECURSIVE Compact(_)
RECURSIVE CompactItems(_, _)

CompactItems(v, i) ==
    LET key == IF v.t = "obj" THEN Quoted(v.keys[i]) \o <<":">> ELSE <<>>
        one == key \o Compact(v.items[i])
    IN  IF i = Len(v.items) THEN one ELSE one \o <<",">> \o CompactItems(v, i + 1)

Compact(v) ==
    CASE v.t = "str" -> Quoted(v.txt)
      [] v.t = "arr" ->
           IF v.items = <<>> THEN <<"[", "]">>
           ELSE <<"[">> \o CompactItems(v, 1) \o <<"]">>
      [] v.t = "obj" ->
           IF v.items = <<>> THEN <<"{", "}">>
           ELSE <<"{">> \o CompactItems(v, 1) \o <<"}">>
      [] OTHER -> v.txt

(***************************************************************************)
(* ContractInteractor.tsx: the pure helpers                                *)
(***************************************************************************)
\* "ABI 需要是数组格式" (ASCII gloss of the message)
ErrAbiNotArray == "ABI must be an array"

\* "ABI JSON 解析失败"
ErrAbiParse == "ABI JSON parse failed"

parseAbiJsonNoTrim(value) ==
    IF value = <<>> THEN [abi |-> JNull, error |-> ""]
    ELSE LET parsed == JsonParse(value)
         IN  IF ~parsed.ok THEN [abi |-> JNull, error |-> ErrAbiParse]
             ELSE IF ~IsArray(parsed.v) THEN [abi |-> JNull, error |-> ErrAbiNotArray]
             ELSE [abi |-> parsed.v, error |-> ""]

\* parseAbiJson: abi = JNull stands for null.
parseAbiJson(value) ==
    LET trimmed == Trim(value)
    IN  IF trimmed = <<>> THEN [abi |-> JNull, error |-> ""]
        ELSE LET parsed == JsonParse(trimmed)
             IN  IF ~parsed.ok THEN [abi |-> JNull, error |-> ErrAbiParse]
                 ELSE IF ~IsArray(parsed.v) THEN [abi |-> JNull, error |-> ErrAbiNotArray]
                 ELSE [abi |-> parsed.v, error |-> ""]

parseInputValueNoCatch(value) ==
    LET trimmed == Trim(value)
    IN  IF trimmed = <<"true">> THEN JBool(TRUE)
        ELSE IF trimmed = <<"false">> THEN JBool(FALSE)
        ELSE IF StartsWith(trimmed, "{") \/ StartsWith(trimmed, "[")
        THEN JsonParse(trimmed).v
        ELSE JStr(trimmed)

\* parseInputValue: the typed value handed to the contract function.
parseInputValue(value) ==
    LET trimmed == Trim(value)
    IN  IF trimmed = <<>> THEN JStr(<<>>)
        ELSE IF trimmed = <<"true">> THEN JBool(TRUE)
        ELSE IF trimmed = <<"false">> THEN JBool(FALSE)
        ELSE IF StartsWith(trimmed, "{") \/ StartsWith(trimmed, "[")
        THEN LET parsed == JsonParse(trimmed)
             IN  IF parsed.ok THEN parsed.v ELSE JStr(trimmed)
        ELSE JStr(trimmed)

\* normalizeAddressInput
normalizeAddressInput(value) ==
    LET trimmed == Trim(value)
    IN  IF trimmed = <<>> THEN <<>>
        ELSE IF StartsWith(trimmed, "0x") THEN trimmed ELSE <<"0x">> \o trimmed

(***************************************************************************)
(* The ethers Interface, as the page uses it.  An ABI item is a            *)
(* human-readable fragment: a JSON string holding one fragment word.  The  *)
(* library's reading of a word is a table.                                 *)
(***************************************************************************)
FnGet == "function get() view"

FnOne == "function one() pure"

FnSet == "function set(uint256,bool)"

FnPay == "function pay() payable"

FnGetW == "function get()"

FnPayW == "function pay()"

EvLog == "event Log()"

Ctor == "constructor()"

ErrBad == "error Bad()"

Fallback == "fallback()"

FragmentWords ==
    {FnGet, FnOne, FnSet, FnPay, FnGetW, FnPayW, EvLog, Ctor, ErrBad, Fallback}

FragmentType(w) ==
    CASE w \in {FnGet, FnOne, FnSet, FnPay, FnGetW, FnPayW} -> "function"
      [] w = EvLog -> "event"
      [] w = Ctor -> "constructor"
      [] w = ErrBad -> "error"
      [] OTHER -> "fallback"

\* FunctionFragment.format()
FragmentSignature(w) ==
    CASE w \in {FnGet, FnGetW} -> "get()"
      [] w = FnOne -> "one()"
      [] w = FnSet -> "set(uint256,bool)"
      [] w \in {FnPay, FnPayW} -> "pay()"
      [] OTHER -> ""

FragmentMutability(w) ==
    CASE w = FnGet -> "view"
      [] w = FnOne -> "pure"
      [] w = FnPay -> "payable"
      [] OTHER -> "nonpayable"

FragmentInputs(w) == IF w = FnSet THEN <<"uint256", "bool">> ELSE <<>>

IsFragmentItem(v) == IsString(v) /\ Len(v.txt) = 1 /\ v.txt[1] \in FragmentWords

\* new Interface(abi) throws.  An item that is no fragment is either refused
\* (the constructor throws) or skipped with a warning, depending on the
\* release of the library: strict tells which.
InterfaceThrows(abi, strict) ==
    strict /\ \E i \in 1..Len(abi.items) : ~IsFragmentItem(abi.items[i])

\* iface.fragments: one fragment per ABI item that is a fragment, in ABI order
InterfaceFragments(abi) ==
    LET kept == SelectSeq(abi.items, IsFragmentItem)
    IN  [i \in 1..Len(kept) |-> kept[i].txt[1]]

FunctionInfo(w) ==
    [signature |-> FragmentSignature(w), name |-> w,
     stateMutability |-> FragmentMutability(w), inputs |-> FragmentInputs(w)]

\* functions (useMemo)
functions(abi, strict) ==
    IF abi = JNull THEN <<>>
    ELSE IF InterfaceThrows(abi, strict) THEN <<>>
    ELSE LET frags == SelectSeq(InterfaceFragments(abi),
                                LAMBDA w : FragmentType(w) = "function")
         IN  [i \in 1..Len(frags) |-> FunctionInfo(frags[i])]

IsReadMutability(m) == m = "view" \/ m = "pure"

readFunctionsViewOnly(fns) == SelectSeq(fns, LAMBDA fn : fn.stateMutability = "view")

\* readFunctions (useMemo)
readFunctions(fns) == SelectSeq(fns, LAMBDA fn : IsReadMutability(fn.stateMutability))

\* writeFunctions (useMemo)
writeFunctions(fns) == SelectSeq(fns, LAMBDA fn : ~IsReadMutability(fn.stateMutability))

\* selectedFunction (useMemo): the first function with the selected
\* signature; signature "" stands for null.
NoFunction == [signature |-> "", name |-> "", stateMutability |-> "", inputs |-> <<>>]

selectedFunctionOf(fns, sig) ==
    IF \E i \in 1..Len(fns) : fns[i].signature = sig
    THEN fns[CHOOSE i \in 1..Len(fns) :
               /\ fns[i].signature = sig
               /\ \A j \in 1..(i - 1) : fns[j].signature # sig]
    ELSE NoFunction

\* currentInputs[index] ?? ""
FieldAt(currentInputs, index) ==
    IF index \in DOMAIN currentInputs THEN currentInputs[index] ELSE <<>>

\* args = selectedFunction.inputs.map((_, index) =>
\*          parseInputValue(currentInputs[index] ?? ""))
buildArgs(fn, currentInputs) ==
    [index \in 1..Len(fn.inputs) |-> parseInputValue(FieldAt(currentInputs, index))]

(***************************************************************************)
(* AbiManager.tsx: normalizeAbiInput                                       *)
(***************************************************************************)
\* "请输入 ABI 内容"
ErrAbiEmpty == "please enter the ABI content"

KeyAbi == <<"abi">>

KeyResult == <<"result">>

\* parseJson (inner helper): JSON.parse, null when it throws
parseJson(input) == JsonParse(input).v

\* parsed && typeof parsed === "object"
IsTruthyObject(v) == v.t \in {"arr", "obj"}

\* lines 41-45: a "result" member that is a string is decoded when it holds
\* JSON (nested || result), any other member is taken as it is
resultOr(nested, result) == IF nested # JNull THEN nested ELSE result

unwrapResult(result) ==
    IF IsString(result) THEN resultOr(parseJson(result.txt), result) ELSE result

unwrapResultFirst(parsed) ==
    IF ~IsTruthyObject(parsed) THEN parsed
    ELSE IF HasKey(parsed, KeyResult) THEN unwrapResult(Member(parsed, KeyResult))
    ELSE IF HasKey(parsed, KeyAbi) THEN Member(parsed, KeyAbi)
    ELSE parsed

\* lines 37-49: the "abi" member, else the "result" member, else the value
\* itself
unwrapRecord(parsed) ==
    IF ~IsTruthyObject(parsed) THEN parsed
    ELSE IF HasKey(parsed, KeyAbi) THEN Member(parsed, KeyAbi)
    ELSE IF HasKey(parsed, KeyResult) THEN unwrapResult(Member(parsed, KeyResult))
    ELSE parsed

\* lines 31-35: a JSON string is parsed once more
parseTwice(first) == IF IsString(first) THEN parseJson(first.txt) ELSE first

\* lines 51-58
formatParsed(trimmed, parsed) ==
    IF parsed # JNull /\ ~(IsString(parsed) /\ parsed.txt = trimmed)
    THEN (IF IsString(parsed)
          THEN [abiText |-> parsed.txt, error |-> ""]
          ELSE [abiText |-> JsonStringify2(parsed), error |-> ""])
    ELSE [abiText |-> trimmed, error |-> ""]

normalizeTrimmed(trimmed) ==
    IF trimmed = <<>> THEN [abiText |-> <<>>, error |-> ErrAbiEmpty]
    ELSE formatParsed(trimmed, unwrapRecord(parseTwice(parseJson(trimmed))))

\* normalizeAbiInput: error "" stands for an absent error member.
normalizeAbiInput(value) == normalizeTrimmed(Trim(value))

(***************************************************************************)
(* State                                                                   *)
(***************************************************************************)
VARIABLES
    \* localStorage of the origin ("" when the key is absent)
    lsAbiList,          \* the text under "abiList"
    lsCurrentAbi,       \* the text under "currentAbi"
    \* AbiManager, one instance per open manager page
    am_mounted,         \* the mount effect has run
    am_savedAbis,
    am_abiName,
    am_abiInput,
    am_selectedIndex,   \* 0-based, NullIndex for null
    am_errorMessage,
    am_drop,            \* a handleFileDrop waiting for file.text()
    \* TransactionDecoder
    td_mounted,
    td_savedAbis,
    td_abi,
    td_selectedAbiIndex,
    td_constructorData, \* the constructor panel: deployment data,
    td_bytecode,        \* bytecode,
    td_decodedConstructor,  \* the decoded arguments (<<>> for null),
    td_error,
    td_deploy,          \* the last call of decodeDeployData
    \* the browser window of the contract-interaction page
    win,                \* which wallet objects are injected
    \* ContractInteractor
    ci_mounted,
    ci_savedAbis,
    ci_abiInput,
    ci_selectedAbiIndex,
    ci_selectedSignature,
    ci_argInputs,       \* signature -> the texts typed for its inputs
    ci_payableValue,
    ci_addressInput,
    ci_provider,        \* the injected object the BrowserProvider wraps
    ci_account,
    ci_networkName,
    ci_chainId,         \* NoChain for null
    ci_errorMessage,
    ci_resultOutput,
    ci_txHash,
    ci_isLoading,
    ci_isWalletModalOpen,
    ci_connect,         \* a handleConnect waiting for the wallet
    ci_getNetwork,      \* a provider.getNetwork() that has not settled
    ci_call,            \* a handleCall / handleSend waiting at an await
    ci_sent,            \* the last contract request handed to a wallet
    ci_valueFor,        \* history: the signature the value field was typed for
    \* helper checks
    input,      \* the text a helper is applied to
    applied,    \* the helper that has been applied ("" = none)
    output,     \* what it returned
    \* ContractAddressCalculator
    ca_addressInput,
    ca_nonceInput,
    ca_derivedAddress,
    ca_addressError,
    ca_nonceError,
    \* the address converter
    ac_addressInput,
    ac_checksumAddress,
    ac_solidityAddress,
    ac_addressError

lsvars == <<lsAbiList, lsCurrentAbi>>

amvars ==
    <<am_mounted, am_savedAbis, am_abiName, am_abiInput, am_selectedIndex,
      am_errorMessage, am_drop>>

\* the form of the constructor panel
tdFormVars ==
    <<td_constructorData, td_bytecode, td_decodedConstructor, td_error, td_deploy>>

tdvars == <<td_mounted, td_savedAbis, td_abi, td_selectedAbiIndex, tdFormVars>>

purevars == <<input, applied, output>>

ciAbiVars == <<ci_mounted, ci_savedAbis, ci_abiInput, ci_selectedAbiIndex>>

ciFormVars ==
    <<ci_selectedSignature, ci_argInputs, ci_payableValue, ci_addressInput, ci_valueFor>>

ciWalletVars == <<ci_provider, ci_account, ci_networkName, ci_chainId, ci_getNetwork>>

ciOutVars == <<ci_errorMessage, ci_resultOutput, ci_txHash, ci_isLoading>>

ciFlightVars == <<ci_connect, ci_call, ci_sent>>

cavars ==
    <<ca_addressInput, ca_nonceInput, ca_derivedAddress, ca_addressError,
      ca_nonceError>>

acvars == <<ac_addressInput, ac_checksumAddress, ac_solidityAddress, ac_addressError>>

\* the two address tools
toolvars == <<cavars, acvars>>

\* what a step of the contract-interaction page leaves alone
notCi == <<amvars, tdvars, purevars, toolvars>>

civars ==
    <<win, ciAbiVars, ciFormVars, ciWalletVars, ciOutVars, ci_isWalletModalOpen,
      ciFlightVars>>

vars == <<lsvars, amvars, tdvars, civars, purevars, toolvars>>

\* what a step of the ABI manager leaves alone
notAm == <<tdvars, civars, purevars, toolvars>>

\* what a step of the transaction decoder leaves alone
notTd == <<lsvars, amvars, civars, purevars, toolvars>>

\* what a helper check leaves alone
notPure == <<lsvars, amvars, tdvars, civars, toolvars>>

(***************************************************************************)
(* Bounds and the input texts of the helper checks                         *)
(***************************************************************************)
\* longest text made of freely chosen units
MaxUnits == 3

\* most items in a generated ABI array
MaxFragments == 2

FlatUnits == {SP, "[", "]", "{", "}", ",", Q, "true", "false", "1", "x"}

RECURSIVE FlatTexts(_)
FlatTexts(n) ==
    IF n = 0 THEN {<<>>}
    ELSE LET prev == FlatTexts(n - 1)
         IN  prev \cup {Append(t, u) : t \in {p \in prev : Len(p) = n - 1},
                                        u \in FlatUnits}

BaseValues ==
    {JArr(<<>>), JArr(<<JStr(<<FnGet>>)>>), JNum(<<"1">>), JStr(<<>>), JNull}

MemberValues == BaseValues \cup {JStr(Compact(v)) : v \in BaseValues}

SampleKeys == {KeyAbi, KeyResult, <<"status">>}

Objects1 == {JObj(<<k>>, <<v>>) : k \in SampleKeys, v \in MemberValues}

Objects2 ==
    {JObj(<<kv[1], kv[3]>>, <<kv[2], kv[4]>>) :
        kv \in {x \in SampleKeys \X MemberValues \X SampleKeys \X MemberValues :
                   x[1] # x[3]}}

StructValues ==
    MemberValues \cup Objects1 \cup Objects2 \cup {JStr(Compact(o)) : o \in Objects1}

\* each value written compactly, written with surrounding white space, and
\* cut short by one unit
StructTexts ==
    LET cs == {Compact(v) : v \in StructValues}
    IN  cs \cup {<<SP>> \o c \o <<NL>> : c \in cs}
           \cup {SubSeq(c, 1, Len(c) - 1) : c \in cs}

AbiItems == {JStr(<<w>>) : w \in FragmentWords} \cup {JNum(<<"1">>)}

RECURSIVE AbiArrays(_)
AbiArrays(n) ==
    IF n = 0 THEN {<<>>}
    ELSE LET prev == AbiArrays(n - 1)
         IN  prev \cup {Append(a, i) : a \in {p \in prev : Len(p) = n - 1},
                                        i \in AbiItems}

\* ABI arrays as a user pastes them (compact, or with white space around)
\* and as the manager stores them (pretty-printed)
AbiTexts ==
    {Compact(JArr(a)) : a \in AbiArrays(MaxFragments)}
        \cup {<<NL>> \o Compact(JArr(a)) \o <<SP>> : a \in AbiArrays(MaxFragments)}
        \cup {JsonStringify2(JArr(a)) : a \in AbiArrays(MaxFragments)}

PureInputs == FlatTexts(MaxUnits) \cup StructTexts \cup AbiTexts

(***************************************************************************)
(* localStorage and the saved-ABI list                                     *)
(***************************************************************************)
\* most entries of a saved-ABI list
MaxAbis == 2

NullIndex == -1

AllManagers == {1, 2}

KeyName == <<"name">>

\* { name, abi }
SavedAbi(name, abi) == JObj(<<KeyName, KeyAbi>>, <<JStr(name), JStr(abi)>>)

ItemName(item) == Member(item, KeyName).txt

ItemAbi(item) == Member(item, KeyAbi).txt

EmptyList == JArr(<<>>)

\* safeJsonParse
safeJsonParse(value, fallback) ==
    IF JsonParse(value).ok THEN JsonParse(value).v ELSE fallback

\* localStorage.getItem(key) || dflt
GetItemOr(stored, dflt) == IF stored = <<>> THEN dflt ELSE stored

\* the list a page reads when it mounts
LoadSavedAbiList == safeJsonParse(GetItemOr(lsAbiList, <<"[", "]">>), EmptyList)

\* savedAbiList.findIndex((item) => item.abi === currentAbi), 0-based
FindIndexByAbi(list, abi) ==
    IF \E i \in 1..Len(list.items) : ItemAbi(list.items[i]) = abi
    THEN (CHOOSE i \in 1..Len(list.items) :
            /\ ItemAbi(list.items[i]) = abi
            /\ \A j \in 1..(i - 1) : ItemAbi(list.items[j]) # abi) - 1
    ELSE -1

\* savedAbis[index] is defined
HasIndex(list, index) == index >= 0 /\ index < Len(list.items)

At(list, index) == list.items[index + 1]

(***************************************************************************)
(* AbiManager.tsx                                                          *)
(***************************************************************************)
\* "请输入 ABI 名称与内容"
ErrNameAndContent == "please enter the ABI name and content"

\* "文件解析失败：无法识别 ABI 内容"
ErrFileNoAbi == "file parse failed: no ABI content recognised"

\* "文件解析失败：" + err.message
ErrFileRead == "file parse failed: read error"

ExtensionUnits == {".json", ".txt"}

\* file.name.replace(/\.[^/.]+$/, ""): the last dot that is followed only by
\* characters other than "." and "/" is cut off with all that follows it
StripExtension(name) ==
    IF \E i \in 1..Len(name) : name[i] \in ExtensionUnits
    THEN LET i == CHOOSE k \in 1..Len(name) :
                    /\ name[k] \in ExtensionUnits
                    /\ \A j \in (k + 1)..Len(name) : name[j] \notin ExtensionUnits
         IN  SubSeq(name, 1, i - 1)
    ELSE name

NoFile == [name |-> <<>>, text |-> <<>>, readable |-> FALSE]

NoDrop == [pending |-> FALSE, file |-> NoFile, savedAbis |-> EmptyList]

InitStorage ==
    /\ lsAbiList = <<>>
    /\ lsCurrentAbi = <<>>

InitAm ==
    /\ am_mounted = [m \in AllManagers |-> FALSE]
    /\ am_savedAbis = [m \in AllManagers |-> EmptyList]
    /\ am_abiName = [m \in AllManagers |-> <<>>]
    /\ am_abiInput = [m \in AllManagers |-> <<>>]
    /\ am_selectedIndex = [m \in AllManagers |-> NullIndex]
    /\ am_errorMessage = [m \in AllManagers |-> ""]
    /\ am_drop = [m \in AllManagers |-> NoDrop]

\* the mount effect (lines 68-83)
AmMount(m) ==
    /\ ~am_mounted[m]
    /\ LET savedAbiList == LoadSavedAbiList
           currentAbi == lsCurrentAbi
           idx == FindIndexByAbi(savedAbiList, currentAbi)
       IN  /\ am_savedAbis' = [am_savedAbis EXCEPT ![m] = savedAbiList]
           /\ am_abiInput' = [am_abiInput EXCEPT ![m] = currentAbi]
           /\ am_selectedIndex' =
                  IF currentAbi # <<>>
                  THEN [am_selectedIndex EXCEPT ![m] = IF idx >= 0 THEN idx ELSE NullIndex]
                  ELSE am_selectedIndex
           /\ am_abiName' =
                  IF currentAbi # <<>> /\ idx >= 0
                  THEN [am_abiName EXCEPT ![m] = ItemName(At(savedAbiList, idx))]
                  ELSE am_abiName
    /\ am_mounted' = [am_mounted EXCEPT ![m] = TRUE]
    /\ UNCHANGED <<lsvars, am_errorMessage, am_drop>>

persistAbiListStateOnly(m, abiList) ==
    /\ am_savedAbis' = [am_savedAbis EXCEPT ![m] = abiList]
    /\ lsAbiList' = lsAbiList

\* persistAbiList, the list part: setSavedAbis and setItem("abiList")
persistAbiList(m, abiList) ==
    /\ am_savedAbis' = [am_savedAbis EXCEPT ![m] = abiList]
    /\ lsAbiList' = Compact(abiList)

\* onChange of the name field
AmSetAbiName(m, value) ==
    /\ am_mounted[m]
    /\ am_abiName' = [am_abiName EXCEPT ![m] = value]
    /\ UNCHANGED <<lsvars, am_mounted, am_savedAbis, am_abiInput, am_selectedIndex,
                   am_errorMessage, am_drop>>

\* onChange of the ABI textarea
AmSetAbiInput(m, value) ==
    /\ am_mounted[m]
    /\ am_abiInput' = [am_abiInput EXCEPT ![m] = value]
    /\ UNCHANGED <<lsvars, am_mounted, am_savedAbis, am_abiName, am_selectedIndex,
                   am_errorMessage, am_drop>>

\* resetSelection ("new ABI" button)
AmResetSelection(m) ==
    /\ am_mounted[m]
    /\ am_selectedIndex' = [am_selectedIndex EXCEPT ![m] = NullIndex]
    /\ am_abiName' = [am_abiName EXCEPT ![m] = <<>>]
    /\ am_abiInput' = [am_abiInput EXCEPT ![m] = <<>>]
    /\ lsCurrentAbi' = <<>>
    /\ UNCHANGED <<lsAbiList, am_mounted, am_savedAbis, am_errorMessage, am_drop>>

\* handleSelect: a click on a list row
AmHandleSelect(m, index) ==
    /\ am_mounted[m]
    /\ HasIndex(am_savedAbis[m], index)
    /\ LET selected == At(am_savedAbis[m], index)
       IN  /\ am_selectedIndex' = [am_selectedIndex EXCEPT ![m] = index]
           /\ am_abiName' = [am_abiName EXCEPT ![m] = ItemName(selected)]
           /\ am_abiInput' = [am_abiInput EXCEPT ![m] = ItemAbi(selected)]
           /\ lsCurrentAbi' = ItemAbi(selected)
    /\ UNCHANGED <<lsAbiList, am_mounted, am_savedAbis, am_errorMessage, am_drop>>

\* the rejected saves of handleSave / handleSaveAsNew (lines 112-121)
SaveIsRejected(m, normalized) ==
    Trim(am_abiName[m]) = <<>> \/ normalized.error # ""

AmSaveRejected(m, normalized) ==
    /\ am_errorMessage' =
           [am_errorMessage EXCEPT ![m] =
               IF Trim(am_abiName[m]) = <<>> THEN ErrNameAndContent
               ELSE normalized.error]
    /\ UNCHANGED <<lsvars, am_mounted, am_savedAbis, am_abiName, am_abiInput,
                   am_selectedIndex, am_drop>>

\* [...savedAbis, nextItem]
Spread(list, item) == JArr(Append(list.items, item))

\* savedAbis.map((item, idx) => idx === index ? nextItem : item)
ReplaceAt(list, index, item) == JArr([list.items EXCEPT ![index + 1] = item])

\* savedAbis.filter((_, idx) => idx !== index)
RemoveAt(list, index) ==
    JArr([i \in 1..(Len(list.items) - 1) |->
             IF i <= index THEN list.items[i] ELSE list.items[i + 1]])

\* handleSave
AmHandleSave(m) ==
    /\ am_mounted[m]
    /\ \E normalized \in {normalizeAbiInput(am_abiInput[m])} :
       IF SaveIsRejected(m, normalized) THEN AmSaveRejected(m, normalized)
       ELSE LET abiText == normalized.abiText
                nextItem == SavedAbi(Trim(am_abiName[m]), abiText)
                update == am_selectedIndex[m] # NullIndex
                            /\ HasIndex(am_savedAbis[m], am_selectedIndex[m])
                nextList == IF update
                            THEN ReplaceAt(am_savedAbis[m], am_selectedIndex[m], nextItem)
                            ELSE Spread(am_savedAbis[m], nextItem)
            IN  /\ Len(nextList.items) <= MaxAbis
                /\ am_errorMessage' = [am_errorMessage EXCEPT ![m] = ""]
                /\ am_abiInput' = [am_abiInput EXCEPT ![m] = abiText]
                /\ persistAbiList(m, nextList)
                /\ lsCurrentAbi' = abiText
                /\ am_selectedIndex' =
                       IF update THEN am_selectedIndex
                       ELSE [am_selectedIndex EXCEPT ![m] = Len(nextList.items) - 1]
                /\ UNCHANGED <<am_mounted, am_abiName, am_drop>>

\* handleSaveAsNew (the button is shown while an entry is selected)
AmHandleSaveAsNew(m) ==
    /\ am_mounted[m]
    /\ am_selectedIndex[m] # NullIndex
    /\ \E normalized \in {normalizeAbiInput(am_abiInput[m])} :
       IF SaveIsRejected(m, normalized) THEN AmSaveRejected(m, normalized)
       ELSE LET abiText == normalized.abiText
                nextItem == SavedAbi(Trim(am_abiName[m]), abiText)
                nextList == Spread(am_savedAbis[m], nextItem)
            IN  /\ Len(nextList.items) <= MaxAbis
                /\ am_errorMessage' = [am_errorMessage EXCEPT ![m] = ""]
                /\ am_abiInput' = [am_abiInput EXCEPT ![m] = abiText]
                /\ persistAbiList(m, nextList)
                /\ lsCurrentAbi' = abiText
                /\ am_selectedIndex' =
                       [am_selectedIndex EXCEPT ![m] = Len(nextList.items) - 1]
                /\ UNCHANGED <<am_mounted, am_abiName, am_drop>>

\* handleDelete: a click on the x of a list row
AmHandleDelete(m, index) ==
    /\ am_mounted[m]
    /\ HasIndex(am_savedAbis[m], index)
    /\ persistAbiList(m, RemoveAt(am_savedAbis[m], index))
    /\ LET sel == am_selectedIndex[m]
       IN  IF sel = index
           THEN /\ am_selectedIndex' = [am_selectedIndex EXCEPT ![m] = NullIndex]
                /\ am_abiName' = [am_abiName EXCEPT ![m] = <<>>]
                /\ am_abiInput' = [am_abiInput EXCEPT ![m] = <<>>]
                /\ lsCurrentAbi' = <<>>
           ELSE /\ am_selectedIndex' =
                       IF sel # NullIndex /\ index < sel
                       THEN [am_selectedIndex EXCEPT ![m] = sel - 1]
                       ELSE am_selectedIndex
                /\ UNCHANGED <<am_abiName, am_abiInput, lsCurrentAbi>>
    /\ UNCHANGED <<am_mounted, am_errorMessage, am_drop>>

\* handleFileDrop up to "await file.text()": the handler keeps the savedAbis
\* of the render it was created in
AmHandleFileDrop(m, file) ==
    /\ am_mounted[m]
    /\ ~am_drop[m].pending
    /\ am_drop' = [am_drop EXCEPT ![m] =
                      [pending |-> TRUE, file |-> file, savedAbis |-> am_savedAbis[m]]]
    /\ UNCHANGED <<lsvars, am_mounted, am_savedAbis, am_abiName, am_abiInput,
                   am_selectedIndex, am_errorMessage>>

\* handleFileDrop after file.text() has settled
AmFileDropDone(m) ==
    /\ am_drop[m].pending
    /\ am_drop' = [am_drop EXCEPT ![m] = NoDrop]
    /\ \E normalized \in {normalizeAbiInput(am_drop[m].file.text)} :
       LET file == am_drop[m].file
           abiText == normalized.abiText
           fileName == StripExtension(file.name)
           nextList == Spread(am_drop[m].savedAbis, SavedAbi(fileName, abiText))
       IN  IF ~file.readable \/ abiText = <<>>
           THEN /\ am_errorMessage' =
                       [am_errorMessage EXCEPT ![m] =
                           IF ~file.readable THEN ErrFileRead ELSE ErrFileNoAbi]
                /\ UNCHANGED <<lsvars, am_savedAbis, am_abiName, am_abiInput,
                               am_selectedIndex>>
           ELSE /\ Len(nextList.items) <= MaxAbis
                /\ persistAbiList(m, nextList)
                /\ lsCurrentAbi' = abiText
                /\ am_abiName' = [am_abiName EXCEPT ![m] = fileName]
                /\ am_abiInput' = [am_abiInput EXCEPT ![m] = abiText]
                /\ am_selectedIndex' =
                       [am_selectedIndex EXCEPT ![m] = Len(nextList.items) - 1]
                /\ UNCHANGED am_errorMessage
    /\ UNCHANGED am_mounted

(***************************************************************************)
(* TransactionDecoder: the mount effect                                    *)
(***************************************************************************)
InitTd ==
    /\ td_mounted = FALSE
    /\ td_savedAbis = EmptyList
    /\ td_abi = <<>>
    /\ td_selectedAbiIndex = NullIndex
    /\ td_constructorData = <<>>
    /\ td_bytecode = <<>>
    /\ td_decodedConstructor = <<>>
    /\ td_error = ""
    /\ td_deploy = [called |-> FALSE, data |-> <<>>, bytecode |-> <<>>]

\* the mount effect (lines 63-74)
TdMount ==
    /\ ~td_mounted
    /\ td_mounted' = TRUE
    /\ LET savedAbiList == LoadSavedAbiList
           currentAbi == lsCurrentAbi
           idx == FindIndexByAbi(savedAbiList, currentAbi)
       IN  /\ td_savedAbis' = savedAbiList
           /\ td_abi' = currentAbi
           /\ td_selectedAbiIndex' =
                  IF currentAbi # <<>> /\ idx >= 0 THEN idx ELSE NullIndex
    /\ UNCHANGED tdFormVars

\* the page is left (its state is dropped)
TdUnmount ==
    /\ td_mounted
    /\ td_mounted' = FALSE
    /\ td_savedAbis' = EmptyList
    /\ td_abi' = <<>>
    /\ td_selectedAbiIndex' = NullIndex
    /\ td_constructorData' = <<>>
    /\ td_bytecode' = <<>>
    /\ td_decodedConstructor' = <<>>
    /\ td_error' = ""
    /\ td_deploy' = [called |-> FALSE, data |-> <<>>, bytecode |-> <<>>]

\* handleSelectAbi of the decoder (lines 76-91); NullIndex stands for the
\* empty option of the select
TdHandleSelectAbi(index) ==
    /\ td_mounted
    /\ IF index = NullIndex
       THEN /\ td_selectedAbiIndex' = NullIndex
            /\ td_abi' = <<>>
            /\ lsCurrentAbi' = <<>>
       ELSE IF ~HasIndex(td_savedAbis, index)
       THEN UNCHANGED <<td_selectedAbiIndex, td_abi, lsCurrentAbi>>
       ELSE /\ td_selectedAbiIndex' = index
            /\ td_abi' = ItemAbi(At(td_savedAbis, index))
            /\ lsCurrentAbi' = ItemAbi(At(td_savedAbis, index))
    /\ UNCHANGED <<lsAbiList, td_mounted, td_savedAbis, tdFormVars>>

(***************************************************************************)
(* TransactionDecoder: the constructor panel                               *)
(***************************************************************************)
\* value.replace(/\s+/g, '')
RECURSIVE StripWs(_)
StripWs(s) ==
    IF s = <<>> THEN <<>>
    ELSE IF IsWs(Head(s)) THEN StripWs(Tail(s))
    ELSE <<Head(s)>> \o StripWs(Tail(s))

\* normalizeHex (lines 20-26)
normalizeHex(value) ==
    LET trimmed == StripWs(value)
    IN  IF trimmed = <<>> THEN <<"0x">>
        ELSE IF StartsWith(trimmed, "0x") THEN trimmed ELSE <<"0x">> \o trimmed

\* String.prototype.replace(pattern, ''): the first occurrence is removed
ReplaceFirst(s, pattern) ==
    LET n == Len(pattern)
        hits == {i \in 1..(Len(s) - n + 1) : SubSeq(s, i, i + n - 1) = pattern}
    IN  IF n = 0 \/ hits = {} THEN s
        ELSE LET i == CHOOSE h \in hits : \A g \in hits : h <= g
             IN  SubSeq(s, 1, i - 1) \o SubSeq(s, i + n, Len(s))

KeyType == <<"type">>
KeyInputs == <<"inputs">>

\* viem: abi.find((x) => 'type' in x && x.type === 'constructor'), from
\* item i on.  The in operator throws on an item that is no object.
RECURSIVE FindConstructor(_, _)
FindConstructor(items, i) ==
    IF i > Len(items) THEN [thrown |-> FALSE, found |-> FALSE, item |-> JNull]
    ELSE IF items[i].t \notin {"obj", "arr"}
    THEN [thrown |-> TRUE, found |-> FALSE, item |-> JNull]
    ELSE IF HasKey(items[i], KeyType)
            /\ Member(items[i], KeyType) = JStr(<<"constructor">>)
    THEN [thrown |-> FALSE, found |-> TRUE, item |-> items[i]]
    ELSE FindConstructor(items, i + 1)

\* the encoded arguments the sample deployments carry, and what they decode to
EncodedArgs == <<"2a">>
DecodedArgs == <<"[", "42", "]">>

DeployThrows == [thrown |-> TRUE, args |-> <<>>]

\* viem decodeAbiParameters(inputs, `0x${...}`): the sample arguments
\* decode; anything else (no data, a second 0x, other bytes) throws
decodeAbiParameters(inputs, data) ==
    IF data = <<"0x">> \o EncodedArgs
    THEN [thrown |-> FALSE, args |-> DecodedArgs]
    ELSE DeployThrows

\* viem decodeDeployData({ abi, data, bytecode }); args <<>> stands for the
\* result without args it returns when data is the bytecode itself
decodeDeployData(abi, data, bytecode) ==
    IF data = bytecode THEN [thrown |-> FALSE, args |-> <<>>]
    ELSE LET description == FindConstructor(abi.items, 1)
         IN  IF description.thrown \/ ~description.found THEN DeployThrows
             ELSE IF ~HasKey(description.item, KeyInputs) THEN DeployThrows
             ELSE IF Member(description.item, KeyInputs).t # "arr"
                     \/ Member(description.item, KeyInputs).items = <<>>
             THEN DeployThrows
             ELSE decodeAbiParameters(Member(description.item, KeyInputs).items,
                                      <<"0x">> \o ReplaceFirst(data, bytecode))

\* "请先选择 ABI"
ErrTdSelectAbi == "please select an ABI first"

\* "ABI 格式错误，需为数组"
ErrTdAbiNotArray == "ABI format error, must be an array"

\* "请正确填写合约 bytecode (0x...)"
ErrTdBytecode == "please fill in the contract bytecode (0x...)"

\* "Constructor 解析失败：" + message
ErrTdConstructor == "constructor decoding failed"

\* no decodeDeployData call has been made
NoDeploy == [called |-> FALSE, data |-> <<>>, bytecode |-> <<>>]

\* onChange of the constructor data field (line 369)
TdSetConstructorData(value) ==
    /\ td_mounted
    /\ td_constructorData' = value
    /\ UNCHANGED <<lsvars, td_mounted, td_savedAbis, td_abi, td_selectedAbiIndex,
                   td_bytecode, td_error, td_decodedConstructor, td_deploy>>

\* onChange of the bytecode field (line 379)
TdSetBytecode(value) ==
    /\ td_mounted
    /\ td_bytecode' = value
    /\ UNCHANGED <<lsvars, td_mounted, td_savedAbis, td_abi, td_selectedAbiIndex,
                   td_constructorData, td_error, td_decodedConstructor, td_deploy>>

\* what decodeConstructor leaves in error and decodedConstructor, and the
\* call it made
Decoded(error, args, deploy) == [error |-> error, args |-> args, deploy |-> deploy]

\* decodeConstructor (lines 118-144)
decodeConstructor(abi, constructorData, bytecode) ==
    IF Trim(abi) = <<>> THEN Decoded(ErrTdSelectAbi, <<>>, NoDeploy)
    ELSE IF ~JsonParse(abi).ok THEN Decoded(ErrTdConstructor, <<>>, NoDeploy)
    ELSE IF ~IsArray(JsonParse(abi).v) THEN Decoded(ErrTdAbiNotArray, <<>>, NoDeploy)
    ELSE IF bytecode = <<>> \/ ~StartsWith(bytecode, "0x")
    THEN Decoded(ErrTdBytecode, <<>>, NoDeploy)
    ELSE LET dataHex == normalizeHex(constructorData)
             decoded == decodeDeployData(JsonParse(abi).v, dataHex, bytecode)
             deploy == [called |-> TRUE, data |-> dataHex, bytecode |-> bytecode]
         IN  IF decoded.thrown THEN Decoded(ErrTdConstructor, <<>>, deploy)
             ELSE Decoded("", decoded.args, deploy)

\* the decode button of the constructor panel (line 385)
TdDecodeConstructor ==
    /\ td_mounted
    /\ \E d \in {decodeConstructor(td_abi, td_constructorData, td_bytecode)} :
         /\ td_error' = d.error
         /\ td_decodedConstructor' = d.args
         /\ td_deploy' = d.deploy
    /\ UNCHANGED <<lsvars, td_mounted, td_savedAbis, td_abi, td_selectedAbiIndex,
                   td_constructorData, td_bytecode>>

(***************************************************************************)
(* ContractInteractor.tsx: the wallet objects of the window                *)
(***************************************************************************)
NoProvider == "null"
OkxWallet == "window.okxwallet"
OkxEthereum == "window.okxwallet.ethereum"
Ethereum == "window.ethereum"

\* A window: okxwallet = window.okxwallet has a request method, okxEthereum =
\* window.okxwallet.ethereum has one, ethereum = window.ethereum is injected.
\* An injected object is an EIP-1193 provider: it has request and on.
Window(okx, okxEth, eth) == [okxwallet |-> okx, okxEthereum |-> okxEth, ethereum |-> eth]

getInjectedProvider(w) ==
    IF w.okxwallet THEN OkxWallet
    ELSE IF w.okxEthereum THEN OkxEthereum
    ELSE IF w.ethereum THEN Ethereum
    ELSE NoProvider

getOkxProviderFirstOnly(w) == IF w.okxwallet THEN OkxWallet ELSE NoProvider

getOkxProvider(w) ==
    IF w.okxwallet THEN OkxWallet
    ELSE IF w.okxEthereum THEN OkxEthereum
    ELSE NoProvider

\* getProviderCandidates: window.okxwallet is an object as soon as one of the
\* two OKX entries exists
getProviderCandidates(w) ==
    (IF w.okxwallet \/ w.okxEthereum THEN <<OkxWallet>> ELSE <<>>)
    \o (IF w.okxEthereum THEN <<OkxEthereum>> ELSE <<>>)
    \o (IF w.ethereum THEN <<Ethereum>> ELSE <<>>)

\* the events effect registers its listeners (lines 228-232)
ListenersRegistered(w) ==
    getInjectedProvider(w) # NoProvider /\ getProviderCandidates(w) # <<>>

(***************************************************************************)
(* Chain ids and labels                                                    *)
(***************************************************************************)
NoChain == -1

\* Number.parseInt(text, radix) / Number(text) on a text of digit units;
\* NoChain stands for NaN
RECURSIVE DigitsValue(_, _)
DigitsValue(units, radix) ==
    IF units = <<>> THEN 0
    ELSE LET d == units[Len(units)]
             rest == DigitsValue(SubSeq(units, 1, Len(units) - 1), radix)
         IN  IF rest = NoChain THEN NoChain
             ELSE IF d = "1" THEN radix * rest + 1
             ELSE IF d = "2" THEN radix * rest + 2
             ELSE NoChain

\* no payload stands for undefined
NoPayload == <<"undefined">>

parseChainId(value) ==
    IF value = NoPayload THEN NoChain
    ELSE IF StartsWith(value, "0x")
    THEN (IF Len(value) = 1 THEN NoChain ELSE DigitsValue(Tail(value), 16))
    ELSE DigitsValue(value, 10)

\* CHAIN_NAME_MAP, <<>> for a chain id it does not hold
ChainNameMap(chainId) ==
    CASE chainId = 1 -> <<"Ethereum">>
      [] chainId = 5 -> <<"Goerli">>
      [] chainId = 56 -> <<"BNB Chain">>
      [] chainId = 97 -> <<"BSC Testnet">>
      [] chainId = 137 -> <<"Polygon">>
      [] chainId = 42161 -> <<"Arbitrum One">>
      [] chainId = 10 -> <<"Optimism">>
      [] chainId = 8453 -> <<"Base">>
      [] chainId = 11155111 -> <<"Sepolia">>
      [] OTHER -> <<>>

getChainLabel(name, chainId) ==
    IF chainId = NoChain THEN name
    ELSE IF ChainNameMap(chainId) # <<>> THEN ChainNameMap(chainId)
    ELSE IF name # <<>> /\ name # <<"unknown">> THEN name
    ELSE <<"Chain", SP, ToString(chainId)>>

(***************************************************************************)
(* The wallet and the ethers calls of the page                             *)
(***************************************************************************)
\* the account the wallet exposes and the network it is on
WalletAccount == "0xA11ce"
WalletNetwork == [name |-> <<"mainnet">>, chainId |-> 1]

\* getAddress(text) accepts the text
IsAddress(text) == text = <<"0x", "c0ffee">>

\* parseEther(text) accepts the text
IsEther(text) == text # <<>> /\ \A k \in 1..Len(text) : text[k] \in Digits

\* parseEther(text): the amount in wei, in decimal
parseEther(text) == text \o [k \in 1..18 |-> "0"]

\* What the wrapped contract method does when it is invoked (ethers
\* buildWrappedMethod): a constant fragment is a static call, any other one
\* is sent as a transaction, which a runner that is no signer cannot do.
EthersMethod(fn, runnerIsSigner) ==
    IF IsReadMutability(fn.stateMutability) THEN "eth_call"
    ELSE IF runnerIsSigner THEN "eth_sendTransaction"
    ELSE "throws"

\* formatResult of the value a call resolves with
CallResult == JStr(<<"ok">>)
formatResult(value) == JsonStringify2(value)

TxHash == <<"0x", "7a">>

(***************************************************************************)
(* ContractInteractor.tsx: state, mount, wallet connection                 *)
(***************************************************************************)
\* "未检测到钱包插件，请安装或打开钱包"
ErrNoWallet == "no wallet plugin detected"
\* "钱包连接失败，请检查授权"
ErrConnectFailed == "wallet connection failed"
\* "未检测到 OKX Wallet，请先安装或启用"
ErrNoOkx == "OKX Wallet not detected"
\* "请先连接钱包"
ErrConnectFirst == "please connect the wallet first"
\* "请选择要调用的函数"
ErrSelectFunction == "please select the function to call"
\* "请填写所有参数"
ErrFillParams == "please fill in all parameters"
\* "请输入合约地址"
ErrNoAddress == "please enter the contract address"
\* "请选择 ABI"
ErrSelectAbi == "please select an ABI"
\* "调用失败：" + message
ErrCallFailed == "call failed"
\* "交易发送失败：" + message
ErrSendFailed == "sending the transaction failed"

Signatures ==
    {FragmentSignature(w) : w \in {w \in FragmentWords : FragmentType(w) = "function"}}

NoConnect == [pending |-> FALSE, via |-> NoProvider]

NoCall ==
    [stage |-> "idle", via |-> NoProvider, fn |-> NoFunction, inputs |-> <<>>,
     payableValue |-> <<>>, address |-> <<>>, valueFor |-> ""]

NoRequest ==
    [handler |-> "", method |-> "", via |-> NoProvider, fn |-> NoFunction,
     args |-> <<>>, hasValue |-> FALSE, value |-> <<>>]

InitCi ==
    /\ ci_mounted = FALSE
    /\ ci_savedAbis = EmptyList
    /\ ci_abiInput = <<>>
    /\ ci_selectedAbiIndex = NullIndex
    /\ ci_selectedSignature = ""
    /\ ci_argInputs = [sig \in Signatures |-> <<>>]
    /\ ci_payableValue = <<>>
    /\ ci_addressInput = <<>>
    /\ ci_provider = NoProvider
    /\ ci_account = ""
    /\ ci_networkName = <<>>
    /\ ci_chainId = NoChain
    /\ ci_errorMessage = ""
    /\ ci_resultOutput = <<>>
    /\ ci_txHash = <<>>
    /\ ci_isLoading = FALSE
    /\ ci_isWalletModalOpen = FALSE
    /\ ci_connect = NoConnect
    /\ ci_getNetwork = FALSE
    /\ ci_call = NoCall
    /\ ci_sent = NoRequest
    /\ ci_valueFor = ""

\* the mount effect (lines 213-225)
CiMount ==
    /\ ~ci_mounted
    /\ ci_mounted' = TRUE
    /\ LET savedAbiList == LoadSavedAbiList
           currentAbi == lsCurrentAbi
           idx == FindIndexByAbi(savedAbiList, currentAbi)
       IN  /\ ci_savedAbis' = savedAbiList
           /\ ci_abiInput' = currentAbi
           /\ ci_selectedAbiIndex' =
                  IF currentAbi # <<>> /\ idx >= 0 THEN idx ELSE NullIndex
    /\ UNCHANGED <<lsvars, win, ciFormVars, ciWalletVars, ciOutVars,
                   ci_isWalletModalOpen, ciFlightVars>>

\* the "连接钱包" button (lines 629-636)
CiOpenWalletModal ==
    /\ ci_mounted /\ ~ci_isWalletModalOpen
    /\ ci_account = ""
    /\ ci_isWalletModalOpen' = TRUE
    /\ UNCHANGED <<lsvars, win, ciAbiVars, ciFormVars, ciWalletVars, ciOutVars,
                   ciFlightVars>>

\* the close and cancel buttons of the wallet dialog
CiCloseWalletModal ==
    /\ ci_mounted /\ ci_isWalletModalOpen
    /\ ci_isWalletModalOpen' = FALSE
    /\ UNCHANGED <<lsvars, win, ciAbiVars, ciFormVars, ciWalletVars, ciOutVars,
                   ciFlightVars>>

\* handleConnect up to its first await (lines 420-429)
CiHandleConnect(injectedOverride) ==
    /\ ci_resultOutput' = <<>>
    /\ ci_txHash' = <<>>
    /\ LET injected == IF injectedOverride # NoProvider THEN injectedOverride
                       ELSE getInjectedProvider(win)
       IN  IF injected = NoProvider
           THEN ci_errorMessage' = ErrNoWallet /\ UNCHANGED ci_connect
           ELSE /\ ci_errorMessage' = ""
                /\ ci_connect' = [pending |-> TRUE, via |-> injected]
    /\ UNCHANGED <<lsvars, win, ciAbiVars, ciFormVars, ciWalletVars, ci_isLoading,
                   ci_isWalletModalOpen, ci_call, ci_sent>>

\* the "OKX Wallet" button of the wallet dialog (lines 1069-1076)
CiWalletModalOkx ==
    /\ ci_mounted /\ ci_isWalletModalOpen
    /\ ~ci_connect.pending
    /\ IF getOkxProvider(win) = NoProvider
       THEN /\ ci_errorMessage' = ErrNoOkx
            /\ UNCHANGED <<lsvars, win, ciAbiVars, ciFormVars, ciWalletVars,
                           ci_resultOutput, ci_txHash, ci_isLoading,
                           ci_isWalletModalOpen, ciFlightVars>>
       ELSE CiHandleConnect(getOkxProvider(win))

CiConnectSettleProviderFirst(approved) ==
    /\ ci_connect.pending
    /\ ci_connect' = NoConnect
    /\ ci_provider' = ci_connect.via
    /\ IF approved
       THEN /\ ci_account' = WalletAccount
            /\ ci_networkName' = WalletNetwork.name
            /\ ci_chainId' = WalletNetwork.chainId
            /\ ci_isWalletModalOpen' = FALSE
            /\ ci_getNetwork' = TRUE
            /\ UNCHANGED ci_errorMessage
       ELSE /\ ci_errorMessage' = ErrConnectFailed
            /\ UNCHANGED <<ci_account, ci_networkName, ci_chainId, ci_getNetwork,
                           ci_isWalletModalOpen>>
    /\ UNCHANGED <<lsvars, win, ciAbiVars, ciFormVars, ci_resultOutput, ci_txHash,
                   ci_isLoading, ci_call, ci_sent>>

\* handleConnect after the wallet has answered (lines 430-441): the requests
\* eth_requestAccounts, getSigner, getAddress and getNetwork all succeeded
\* (approved), or one of them failed
CiConnectSettle(approved) ==
    /\ ci_connect.pending
    /\ ci_connect' = NoConnect
    /\ IF approved
       THEN /\ ci_provider' = ci_connect.via
            /\ ci_account' = WalletAccount
            /\ ci_networkName' = WalletNetwork.name
            /\ ci_chainId' = WalletNetwork.chainId
            /\ ci_isWalletModalOpen' = FALSE
            /\ ci_getNetwork' = TRUE
            /\ UNCHANGED ci_errorMessage
       ELSE /\ ci_errorMessage' = ErrConnectFailed
            /\ UNCHANGED <<ciWalletVars, ci_isWalletModalOpen>>
    /\ UNCHANGED <<lsvars, win, ciAbiVars, ciFormVars, ci_resultOutput, ci_txHash,
                   ci_isLoading, ci_call, ci_sent>>

\* handleChainChanged (lines 234-251), for chainChanged and networkChanged
CiChainChanged(nextChainId) ==
    /\ ci_mounted /\ ListenersRegistered(win)
    /\ LET parsedId == parseChainId(nextChainId)
       IN  IF parsedId # NoChain
           THEN /\ ci_chainId' = parsedId
                /\ ci_networkName' = getChainLabel(<<>>, parsedId)
           ELSE UNCHANGED <<ci_chainId, ci_networkName>>
    /\ ci_provider' = getInjectedProvider(win)
    /\ ci_getNetwork' = TRUE
    /\ UNCHANGED <<lsvars, win, ciAbiVars, ciFormVars, ci_account, ciOutVars,
                   ci_isWalletModalOpen, ciFlightVars>>

CiAccountsChangedKeepProvider(accounts) ==
    /\ ci_mounted /\ ListenersRegistered(win)
    /\ LET nextAccount == IF accounts = <<>> THEN "" ELSE accounts[1]
       IN  /\ ci_account' = nextAccount
           /\ IF nextAccount = ""
              THEN /\ ci_networkName' = <<>>
                   /\ ci_chainId' = NoChain
                   /\ UNCHANGED ci_provider
              ELSE UNCHANGED <<ci_provider, ci_networkName, ci_chainId>>
    /\ UNCHANGED <<lsvars, win, ciAbiVars, ciFormVars, ci_getNetwork, ciOutVars,
                   ci_isWalletModalOpen, ciFlightVars>>

\* handleAccountsChanged (lines 253-261)
CiAccountsChanged(accounts) ==
    /\ ci_mounted /\ ListenersRegistered(win)
    /\ LET nextAccount == IF accounts = <<>> THEN "" ELSE accounts[1]
       IN  /\ ci_account' = nextAccount
           /\ IF nextAccount = ""
              THEN /\ ci_provider' = NoProvider
                   /\ ci_networkName' = <<>>
                   /\ ci_chainId' = NoChain
              ELSE UNCHANGED <<ci_provider, ci_networkName, ci_chainId>>
    /\ UNCHANGED <<lsvars, win, ciAbiVars, ciFormVars, ci_getNetwork, ciOutVars,
                   ci_isWalletModalOpen, ciFlightVars>>

\* provider.getNetwork() settles: the request of the provider effect (lines
\* 278-292) and the one of handleChainChanged (lines 242-250) are followed as
\* one outstanding request; "effect" and "handler" name whose catch runs
CiGetNetworkSettle(outcome) ==
    /\ ci_getNetwork
    /\ ci_getNetwork' = FALSE
    /\ CASE outcome = "then" ->
              /\ ci_networkName' = WalletNetwork.name
              /\ ci_chainId' = WalletNetwork.chainId
         [] outcome = "effect" ->
              /\ ci_networkName' = <<>>
              /\ ci_chainId' = NoChain
         [] OTHER ->
              /\ ci_networkName' = <<>>
              /\ UNCHANGED ci_chainId
    /\ UNCHANGED <<lsvars, win, ciAbiVars, ciFormVars, ci_provider, ci_account,
                   ciOutVars, ci_isWalletModalOpen, ciFlightVars>>

\* refreshNetwork of the polling effect (lines 304-345): eth_chainId is asked
\* of the first candidate that has a request method
CiRefreshNetwork(answered, chainHex) ==
    /\ ci_mounted
    /\ ci_provider # NoProvider /\ ci_account # ""
    /\ win.okxwallet \/ win.okxEthereum \/ win.ethereum
    /\ IF ~answered
       THEN ci_chainId' = NoChain /\ UNCHANGED ci_networkName
       ELSE IF parseChainId(chainHex) # NoChain
       THEN /\ ci_chainId' = parseChainId(chainHex)
            /\ ci_networkName' = getChainLabel(<<>>, parseChainId(chainHex))
       ELSE UNCHANGED <<ci_chainId, ci_networkName>>
    /\ UNCHANGED <<lsvars, win, ciAbiVars, ciFormVars, ci_provider, ci_account,
                   ci_getNetwork, ciOutVars, ci_isWalletModalOpen, ciFlightVars>>

(***************************************************************************)
(* ContractInteractor.tsx: the ABI, the function panels, call and send     *)
(***************************************************************************)
\* abi (useMemo, lines 347-350)
CiAbi == parseAbiJson(ci_abiInput).abi

\* functions (useMemo) of the page
CiFunctions == functions(CiAbi, FALSE)

\* a panel of the list fns is open: isActive && selectedFunction
PanelOpen(fns, all) ==
    /\ \E i \in 1..Len(fns) : fns[i].signature = ci_selectedSignature
    /\ selectedFunctionOf(all, ci_selectedSignature) # NoFunction

\* handleSelectAbi (lines 400-415); index NullIndex is the empty option
CiHandleSelectAbi(index) ==
    /\ ci_mounted /\ ~ci_isWalletModalOpen
    /\ Len(ci_savedAbis.items) > 0
    /\ index = NullIndex \/ HasIndex(ci_savedAbis, index)
    /\ IF index = NullIndex
       THEN /\ ci_selectedAbiIndex' = NullIndex
            /\ ci_abiInput' = <<>>
            /\ lsCurrentAbi' = <<>>
       ELSE /\ ci_selectedAbiIndex' = index
            /\ ci_abiInput' = ItemAbi(At(ci_savedAbis, index))
            /\ lsCurrentAbi' = ItemAbi(At(ci_savedAbis, index))
    /\ UNCHANGED <<lsAbiList, win, ci_mounted, ci_savedAbis, ciFormVars, ciWalletVars,
                   ciOutVars, ci_isWalletModalOpen, ciFlightVars>>

\* resetOutputs
resetOutputs ==
    /\ ci_errorMessage' = ""
    /\ ci_resultOutput' = <<>>
    /\ ci_txHash' = <<>>
    /\ ci_isLoading' = FALSE

handleSelectFunctionKeepValue(signature) ==
    /\ ci_selectedSignature' = signature
    /\ UNCHANGED ci_payableValue
    /\ resetOutputs

\* handleSelectFunction (lines 451-455)
handleSelectFunction(signature) ==
    /\ ci_selectedSignature' = signature
    /\ ci_payableValue' = <<>>
    /\ resetOutputs

\* a click on a function button of the read or the write list
CiSelectFunction(signature) ==
    /\ ci_mounted /\ ~ci_isWalletModalOpen
    /\ \E fns \in {CiFunctions} : \E i \in 1..Len(fns) : fns[i].signature = signature
    /\ handleSelectFunction(signature)
    /\ UNCHANGED <<lsvars, win, ciAbiVars, ci_argInputs, ci_addressInput, ci_valueFor,
                   ciWalletVars, ci_isWalletModalOpen, ciFlightVars>>

\* next[signature][index] = value on a copy of the array (0-based index)
SetAt(texts, index, value) ==
    [k \in 1..(IF index + 1 > Len(texts) THEN index + 1 ELSE Len(texts)) |->
        IF k = index + 1 THEN value ELSE FieldAt(texts, k)]

\* onChange of the input of parameter index (lines 812-825, 944-957)
CiSetArgInput(index, value) ==
    /\ ci_mounted /\ ~ci_isWalletModalOpen
    /\ \E fns \in {CiFunctions} :
         LET fn == selectedFunctionOf(fns, ci_selectedSignature)
         IN  /\ fn # NoFunction
             /\ index < Len(fn.inputs)
             /\ ci_argInputs' =
                    [ci_argInputs EXCEPT ![fn.signature] = SetAt(@, index, value)]
    /\ UNCHANGED <<lsvars, win, ciAbiVars, ci_selectedSignature, ci_payableValue,
                   ci_addressInput, ci_valueFor, ciWalletVars, ciOutVars,
                   ci_isWalletModalOpen, ciFlightVars>>

\* onChange of the value field, shown in the write panel of a payable
\* function (lines 978-991)
CiSetPayableValue(value) ==
    /\ ci_mounted /\ ~ci_isWalletModalOpen
    /\ \E fns \in {CiFunctions} :
         /\ PanelOpen(writeFunctions(fns), fns)
         /\ selectedFunctionOf(fns, ci_selectedSignature).stateMutability = "payable"
    /\ ci_payableValue' = value
    /\ ci_valueFor' = ci_selectedSignature
    /\ UNCHANGED <<lsvars, win, ciAbiVars, ci_selectedSignature, ci_argInputs,
                   ci_addressInput, ciWalletVars, ciOutVars, ci_isWalletModalOpen,
                   ciFlightVars>>

\* onChange of the contract address field
CiSetAddressInput(value) ==
    /\ ci_mounted /\ ~ci_isWalletModalOpen
    /\ ci_addressInput' = value
    /\ UNCHANGED <<lsvars, win, ciAbiVars, ci_selectedSignature, ci_argInputs,
                   ci_payableValue, ci_valueFor, ciWalletVars, ciOutVars,
                   ci_isWalletModalOpen, ciFlightVars>>

\* ensureInputs finds a parameter without text
MissingInput(fn) ==
    \E index \in 1..Len(fn.inputs) :
        Trim(FieldAt(ci_argInputs[fn.signature], index)) = <<>>

PrecheckAddressFirst(abi, fn) ==
    IF ci_provider = NoProvider THEN ErrConnectFirst
    ELSE IF fn = NoFunction THEN ErrSelectFunction
    ELSE IF normalizeAddressInput(ci_addressInput) = <<>> THEN ErrNoAddress
    ELSE IF MissingInput(fn) THEN ErrFillParams
    ELSE IF abi = JNull THEN ErrSelectAbi
    ELSE ""

\* the checks handleCall and handleSend make before their try block; "" when
\* all of them pass
Precheck(abi, fn) ==
    IF ci_provider = NoProvider THEN ErrConnectFirst
    ELSE IF fn = NoFunction THEN ErrSelectFunction
    ELSE IF MissingInput(fn) THEN ErrFillParams
    ELSE IF normalizeAddressInput(ci_addressInput) = <<>> THEN ErrNoAddress
    ELSE IF abi = JNull THEN ErrSelectAbi
    ELSE ""

\* the request a wrapped contract method hands to the wallet
Request(handler, method, via, fn, inputs, hasValue, value) ==
    [handler |-> handler, method |-> method, via |-> via, fn |-> fn,
     args |-> buildArgs(fn, inputs), hasValue |-> hasValue, value |-> value]

\* handleCall (lines 494-532) up to "await fn(...args)": the button of an
\* open read panel
CiHandleCall ==
    /\ ci_mounted /\ ~ci_isWalletModalOpen
    /\ ~ci_isLoading
    /\ ci_call.stage = "idle"
    /\ \E abi \in {CiAbi} : \E fns \in {functions(abi, FALSE)} :
       \E fn \in {selectedFunctionOf(fns, ci_selectedSignature)} :
         /\ PanelOpen(readFunctions(fns), fns)
         /\ ci_resultOutput' = <<>>
         /\ ci_txHash' = <<>>
         /\ IF Precheck(abi, fn) # ""
            THEN /\ ci_errorMessage' = Precheck(abi, fn)
                 /\ ci_isLoading' = FALSE
                 /\ UNCHANGED <<ci_call, ci_sent>>
            ELSE IF \/ ~IsAddress(normalizeAddressInput(ci_addressInput))
                    \/ EthersMethod(fn, FALSE) = "throws"
            THEN /\ ci_errorMessage' = ErrCallFailed
                 /\ ci_isLoading' = FALSE
                 /\ UNCHANGED <<ci_call, ci_sent>>
            ELSE /\ ci_errorMessage' = ""
                 /\ ci_isLoading' = TRUE
                 /\ ci_call' = [NoCall EXCEPT !.stage = "call", !.via = ci_provider,
                                              !.fn = fn]
                 /\ ci_sent' = Request("handleCall", EthersMethod(fn, FALSE),
                                       ci_provider, fn, ci_argInputs[fn.signature],
                                       FALSE, <<>>)
    /\ UNCHANGED <<lsvars, win, ciAbiVars, ciFormVars, ciWalletVars,
                   ci_isWalletModalOpen, ci_connect>>

\* handleCall after the call has settled (lines 523-531)
CiCallSettle(resolved) ==
    /\ ci_call.stage = "call"
    /\ ci_call' = NoCall
    /\ IF resolved
       THEN ci_resultOutput' = formatResult(CallResult) /\ UNCHANGED ci_errorMessage
       ELSE ci_errorMessage' = ErrCallFailed /\ UNCHANGED ci_resultOutput
    /\ ci_isLoading' = FALSE
    /\ UNCHANGED <<lsvars, win, ciAbiVars, ciFormVars, ciWalletVars, ci_txHash,
                   ci_isWalletModalOpen, ci_connect, ci_sent>>

\* handleSend (lines 534-578) up to "await provider.getSigner()": the button
\* of an open write panel.  The continuation keeps the values of this render.
CiHandleSend ==
    /\ ci_mounted /\ ~ci_isWalletModalOpen
    /\ ~ci_isLoading
    /\ ci_call.stage = "idle"
    /\ \E abi \in {CiAbi} : \E fns \in {functions(abi, FALSE)} :
       \E fn \in {selectedFunctionOf(fns, ci_selectedSignature)} :
         /\ PanelOpen(writeFunctions(fns), fns)
         /\ ci_resultOutput' = <<>>
         /\ ci_txHash' = <<>>
         /\ ci_errorMessage' = Precheck(abi, fn)
         /\ IF Precheck(abi, fn) # ""
            THEN ci_isLoading' = FALSE /\ UNCHANGED ci_call
            ELSE /\ ci_isLoading' = TRUE
                 /\ ci_call' = [stage |-> "signer", via |-> ci_provider, fn |-> fn,
                                inputs |-> ci_argInputs[fn.signature],
                                payableValue |-> ci_payableValue,
                                address |-> normalizeAddressInput(ci_addressInput),
                                valueFor |-> ci_valueFor]
    /\ UNCHANGED <<lsvars, win, ciAbiVars, ciFormVars, ciWalletVars,
                   ci_isWalletModalOpen, ci_connect, ci_sent>>

\* overrides (lines 566-569), before parseEther
overrides(fn, payableValue) ==
    IF fn.stateMutability = "payable" /\ Trim(payableValue) # <<>>
    THEN [hasValue |-> TRUE, text |-> Trim(payableValue)]
    ELSE [hasValue |-> FALSE, text |-> <<>>]

\* handleSend from getSigner to "await fn(...args, overrides)" (lines 557-570)
CiSendSigned(signerGiven) ==
    /\ ci_call.stage = "signer"
    /\ \E ov \in {overrides(ci_call.fn, ci_call.payableValue)} :
         IF \/ ~signerGiven
            \/ ~IsAddress(ci_call.address)
            \/ (ov.hasValue /\ ~IsEther(ov.text))
         THEN /\ ci_errorMessage' = ErrSendFailed
              /\ ci_isLoading' = FALSE
              /\ ci_call' = NoCall
              /\ UNCHANGED ci_sent
         ELSE /\ ci_call' = [ci_call EXCEPT !.stage = "tx"]
              /\ ci_sent' = Request("handleSend", EthersMethod(ci_call.fn, TRUE),
                                    ci_call.via, ci_call.fn, ci_call.inputs,
                                    ov.hasValue,
                                    IF ov.hasValue THEN parseEther(ov.text) ELSE <<>>)
              /\ UNCHANGED <<ci_errorMessage, ci_isLoading>>
    /\ UNCHANGED <<lsvars, win, ciAbiVars, ciFormVars, ciWalletVars, ci_resultOutput,
                   ci_txHash, ci_isWalletModalOpen, ci_connect>>

\* handleSend after the method has settled (lines 570-577): a transaction
\* response has a hash, the result of a static call has none
CiSendSettle(resolved) ==
    /\ ci_call.stage = "tx"
    /\ ci_call' = NoCall
    /\ IF resolved
       THEN /\ ci_txHash' = IF ci_sent.method = "eth_sendTransaction" THEN TxHash ELSE <<>>
            /\ ci_resultOutput' = <<>>
            /\ UNCHANGED ci_errorMessage
       ELSE /\ ci_errorMessage' = ErrSendFailed
            /\ UNCHANGED <<ci_resultOutput, ci_txHash>>
    /\ ci_isLoading' = FALSE
    /\ UNCHANGED <<lsvars, win, ciAbiVars, ciFormVars, ciWalletVars,
                   ci_isWalletModalOpen, ci_connect, ci_sent>>

\* the page is left: the component state is dropped
CiUnmount ==
    /\ ci_mounted
    /\ ci_connect = NoConnect /\ ci_call = NoCall /\ ~ci_getNetwork
    /\ ci_mounted' = FALSE
    /\ ci_savedAbis' = EmptyList
    /\ ci_abiInput' = <<>>
    /\ ci_selectedAbiIndex' = NullIndex
    /\ ci_selectedSignature' = ""
    /\ ci_argInputs' = [sig \in Signatures |-> <<>>]
    /\ ci_payableValue' = <<>>
    /\ ci_addressInput' = <<>>
    /\ ci_provider' = NoProvider
    /\ ci_account' = ""
    /\ ci_networkName' = <<>>
    /\ ci_chainId' = NoChain
    /\ resetOutputs
    /\ ci_isWalletModalOpen' = FALSE
    /\ ci_sent' = NoRequest
    /\ ci_valueFor' = ""
    /\ UNCHANGED <<lsvars, win, ci_connect, ci_getNetwork, ci_call>>

(***************************************************************************)
(* ContractAddressCalculator.tsx and the address converter.  Both pages    *)
(* carry their own copy of normalizeAddressInput, word for word the one of *)
(* the contract-interaction page.  The nonce field is read character by    *)
(* character: a unit of a nonce text is one character.                     *)
(***************************************************************************)
\* String.prototype.startsWith, for a prefix of two characters
StartsWith2(s, c1, c2) == Len(s) >= 2 /\ s[1] = c1 /\ s[2] = c2

\* /^\d+$/ and /^[0-9a-fA-F]+$/ on the characters a nonce text is drawn from
DecimalChars == {"0", "1"}
HexChars == {"0", "1", "a", "F"}

TestAll(s, chars) == s # <<>> /\ \A k \in 1..Len(s) : s[k] \in chars

CharValue(c) ==
    CASE c = "0" -> 0
      [] c = "1" -> 1
      [] c = "a" -> 10
      [] c = "F" -> 15

\* BigInt(text) of a digit text in the given radix (most significant first)
RECURSIVE BigInt(_, _)
BigInt(digits, radix) ==
    IF digits = <<>> THEN 0
    ELSE radix * BigInt(SubSeq(digits, 1, Len(digits) - 1), radix)
            + CharValue(digits[Len(digits)])

\* "Nonce 不能为空"
ErrNonceEmpty == "Nonce must not be empty"

\* "Nonce 需为有效的 hex"
ErrNonceHex == "Nonce must be valid hex"

\* "Nonce 需为非负整数"
ErrNonceNonNegative == "Nonce must be a non-negative integer"

\* the returned record; isNull stands for value: null
NonceNull(error) == [isNull |-> TRUE, value |-> 0, error |-> error]
NonceValue(n) == [isNull |-> FALSE, value |-> n, error |-> ""]

parseNonceInputLowerPrefixOnly(value) ==
    LET trimmed == Trim(value)
        body == SubSeq(trimmed, 3, Len(trimmed))
    IN  IF trimmed = <<>> THEN NonceNull("")
        ELSE IF StartsWith2(trimmed, "0", "x")
        THEN (IF body = <<>> THEN NonceNull(ErrNonceEmpty)
              ELSE IF ~TestAll(body, HexChars) THEN NonceNull(ErrNonceHex)
              ELSE NonceValue(BigInt(body, 16)))
        ELSE IF ~TestAll(trimmed, DecimalChars) THEN NonceNull(ErrNonceNonNegative)
        ELSE NonceValue(BigInt(trimmed, 10))

\* parseNonceInput (ContractAddressCalculator.tsx lines 14-36)
parseNonceInput(value) ==
    LET trimmed == Trim(value)
        body == SubSeq(trimmed, 3, Len(trimmed))
    IN  IF trimmed = <<>> THEN NonceNull("")
        ELSE IF StartsWith2(trimmed, "0", "x") \/ StartsWith2(trimmed, "0", "X")
        THEN (IF body = <<>> THEN NonceNull(ErrNonceEmpty)
              ELSE IF ~TestAll(body, HexChars) THEN NonceNull(ErrNonceHex)
              ELSE NonceValue(BigInt(body, 16)))
        ELSE IF ~TestAll(trimmed, DecimalChars) THEN NonceNull(ErrNonceNonNegative)
        ELSE NonceValue(BigInt(trimmed, 10))

\* ethers getAddress.  An address body is one word: the sample addresses in
\* lower case, in upper case and with their checksum capitals.  A body in
\* any of the three forms is accepted and returned with the checksum
\* capitals; every other text (mixed case with a wrong checksum, a wrong
\* length, a second prefix) throws.
ChecksumOf(body) ==
    CASE body \in {"c0ffee", "C0FFEE", "C0ffEE"} -> "C0ffEE"
      [] body \in {"dead", "DEAD", "DeaD"} -> "DeaD"
      [] OTHER -> ""

getAddress(text) ==
    IF Len(text) = 2 /\ text[1] = "0x" /\ ChecksumOf(text[2]) # ""
    THEN [ok |-> TRUE, v |-> <<"0x", ChecksumOf(text[2])>>]
    ELSE [ok |-> FALSE, v |-> <<>>]

\* ethers getCreateAddress({from, nonce}): the address derived from the
\* pair, written as the pair itself (distinct pairs, distinct addresses)
getCreateAddress(from, nonce) == <<"0x", "create", from[2], ToString(nonce)>>

\* "EOA 地址格式错误，请检查输入"
ErrEoaFormat == "EOA address format error"

\* "地址格式错误，请检查输入"
ErrAddressFormat == "address format error"

InitCa ==
    /\ ca_addressInput = <<>>
    /\ ca_nonceInput = <<>>
    /\ ca_derivedAddress = <<>>
    /\ ca_addressError = ""
    /\ ca_nonceError = ""

\* what one run of a page function sets the three outputs to
Derived(derivedAddress, addressError, nonceError) ==
    [derivedAddress |-> derivedAddress, addressError |-> addressError,
     nonceError |-> nonceError]

updateDerivedAddressKeepOnError(nextAddress, nextNonce) ==
    LET normalizedAddress == normalizeAddressInput(nextAddress)
        parsedNonce == parseNonceInput(nextNonce)
        checksummed == getAddress(normalizedAddress)
    IN  IF normalizedAddress = <<>> \/ Trim(nextNonce) = <<>>
        THEN Derived(<<>>, "", "")
        ELSE IF parsedNonce.error # ""
        THEN Derived(ca_derivedAddress, "", parsedNonce.error)
        ELSE IF checksummed.ok
        THEN Derived(getCreateAddress(checksummed.v, parsedNonce.value), "", "")
        ELSE Derived(ca_derivedAddress, ErrEoaFormat, "")

\* updateDerivedAddress (lines 46-76)
updateDerivedAddress(nextAddress, nextNonce) ==
    LET normalizedAddress == normalizeAddressInput(nextAddress)
        parsedNonce == parseNonceInput(nextNonce)
        checksummed == getAddress(normalizedAddress)
    IN  IF normalizedAddress = <<>> \/ Trim(nextNonce) = <<>>
        THEN Derived(<<>>, "", "")
        ELSE IF parsedNonce.error # ""
        THEN Derived(<<>>, "", parsedNonce.error)
        ELSE IF checksummed.ok
        THEN Derived(getCreateAddress(checksummed.v, parsedNonce.value), "", "")
        ELSE Derived(<<>>, ErrEoaFormat, "")

\* onChange of the address field (lines 122-126)
CaSetAddressInput(nextValue) ==
    /\ ca_addressInput' = nextValue
    /\ \E d \in {updateDerivedAddress(nextValue, ca_nonceInput)} :
         /\ ca_derivedAddress' = d.derivedAddress
         /\ ca_addressError' = d.addressError
         /\ ca_nonceError' = d.nonceError
    /\ UNCHANGED ca_nonceInput

\* onChange of the nonce field (lines 138-142)
CaSetNonceInput(nextValue) ==
    /\ ca_nonceInput' = nextValue
    /\ \E d \in {updateDerivedAddress(ca_addressInput, nextValue)} :
         /\ ca_derivedAddress' = d.derivedAddress
         /\ ca_addressError' = d.addressError
         /\ ca_nonceError' = d.nonceError
    /\ UNCHANGED ca_addressInput

InitAc ==
    /\ ac_addressInput = <<>>
    /\ ac_checksumAddress = <<>>
    /\ ac_solidityAddress = <<>>
    /\ ac_addressError = ""

Converted(checksumAddress, solidityAddress, addressError) ==
    [checksumAddress |-> checksumAddress, solidityAddress |-> solidityAddress,
     addressError |-> addressError]

convertAddressKeepOutputs(value) ==
    LET normalized == normalizeAddressInput(value)
        checksummed == getAddress(normalized)
    IN  IF normalized = <<>> THEN Converted(<<>>, <<>>, "")
        ELSE IF checksummed.ok
        THEN Converted(checksummed.v,
                       <<"address(">> \o checksummed.v \o <<")">>, "")
        ELSE Converted(ac_checksumAddress, <<>>, ErrAddressFormat)

\* convertAddress (address converter, lines 34-52)
convertAddress(value) ==
    LET normalized == normalizeAddressInput(value)
        checksummed == getAddress(normalized)
    IN  IF normalized = <<>> THEN Converted(<<>>, <<>>, "")
        ELSE IF checksummed.ok
        THEN Converted(checksummed.v,
                       <<"address(">> \o checksummed.v \o <<")">>, "")
        ELSE Converted(<<>>, <<>>, ErrAddressFormat)

\* onChange of the address field (lines 122-126)
AcSetAddressInput(nextValue) ==
    /\ ac_addressInput' = nextValue
    /\ \E c \in {convertAddress(nextValue)} :
         /\ ac_checksumAddress' = c.checksumAddress
         /\ ac_solidityAddress' = c.solidityAddress
         /\ ac_addressError' = c.addressError

\* both tools as their pages first render them
InitTools == InitCa /\ InitAc

(***************************************************************************)
(* The ABI manager with the pages that read its list                       *)
(***************************************************************************)
NameTexts == {<<SP>>, <<"ERC20", SP>>}

AbiInputTexts ==
    {<<SP>>, <<"[", Q, FnGet, Q, "]">>, <<"{", Q, "abi", Q, ":", Q, Q, "}">>}

DroppedFiles ==
    {[name |-> <<".json">>, text |-> <<"[", Q, FnGet, Q, "]">>, readable |-> TRUE],
     [name |-> <<"abi">>, text |-> <<SP>>, readable |-> TRUE],
     [name |-> <<"abi", ".json">>, text |-> <<>>, readable |-> FALSE]}

InitPureIdle ==
    /\ input = <<>>
    /\ applied = ""
    /\ output = JNull

\* no wallet is injected
NoWallet == Window(FALSE, FALSE, FALSE)

InitAM ==
    /\ InitStorage /\ InitAm /\ InitTd /\ InitPureIdle
    /\ win = NoWallet /\ InitCi /\ InitTools

\* One user: the manager page stays open in one tab, a reading page is
\* opened in a second tab, looked at and left again before the user goes
\* back to the manager.
ReaderOpen == td_mounted \/ ci_mounted

NextAM ==
    \/ ~ReaderOpen /\ AmMount(1) /\ UNCHANGED notAm
    \/ ~ReaderOpen /\ (\E v \in NameTexts : AmSetAbiName(1, v)) /\ UNCHANGED notAm
    \/ ~ReaderOpen /\ (\E v \in AbiInputTexts : AmSetAbiInput(1, v)) /\ UNCHANGED notAm
    \/ ~ReaderOpen /\ AmResetSelection(1) /\ UNCHANGED notAm
    \/ ~ReaderOpen /\ (\E index \in 0..(MaxAbis - 1) : AmHandleSelect(1, index))
          /\ UNCHANGED notAm
    \/ ~ReaderOpen /\ AmHandleSave(1) /\ UNCHANGED notAm
    \/ ~ReaderOpen /\ AmHandleSaveAsNew(1) /\ UNCHANGED notAm
    \/ ~ReaderOpen /\ (\E index \in 0..(MaxAbis - 1) : AmHandleDelete(1, index))
          /\ UNCHANGED notAm
    \/ ~ReaderOpen /\ (\E f \in DroppedFiles : AmHandleFileDrop(1, f)) /\ UNCHANGED notAm
    \/ ~ReaderOpen /\ AmFileDropDone(1) /\ UNCHANGED notAm
    \/ ~ReaderOpen /\ TdMount /\ UNCHANGED notTd
    \/ TdUnmount /\ UNCHANGED notTd
    \/ ~ReaderOpen /\ CiMount /\ UNCHANGED notCi
    \/ CiUnmount /\ UNCHANGED notCi

SpecAM == InitAM /\ [][NextAM]_vars

(***************************************************************************)
(* The contract-interaction page with a wallet                             *)
(***************************************************************************)
\* windows with no or one wallet object injected, and the window of a
\* browser with OKX Wallet next to another wallet
WalletConfigs ==
    {NoWallet, Window(TRUE, FALSE, FALSE), Window(FALSE, TRUE, FALSE),
     Window(FALSE, FALSE, TRUE), Window(TRUE, FALSE, TRUE)}

\* what the ABI manager has stored: two ABIs in the form normalizeAbiInput
\* gives them; get() is declared twice in the first one, and pay() is
\* payable in the second one only
AbiTwice ==
    JsonStringify2(JArr(<<JStr(<<FnGet>>), JStr(<<FnGetW>>), JStr(<<FnPayW>>)>>))
AbiPay == JsonStringify2(JArr(<<JStr(<<FnGetW>>), JStr(<<FnPay>>), JStr(<<FnSet>>)>>))
StoredAbis ==
    JArr(<<SavedAbi(<<"Twice">>, AbiTwice), SavedAbi(<<"Pay">>, AbiPay)>>)

ChainPayloads == {<<"0x", "1">>, <<"x">>}
\* account lists of an accountsChanged event: none, the connected account,
\* a second account in front of it
AccountPayloads == {<<>>, <<WalletAccount>>, <<"0xB0b", WalletAccount>>}
PayableTexts == {<<SP>>, <<"1">>, <<"x">>}
AddressTexts == {<<"c0ffee">>}
ArgTexts == {<<"true">>, <<SP>>}
ArgIndexes == {0, 1}

\* The wallet side of the page: every window, every wallet event; one ABI
\* with a read and a write function is stored and is the current one when
\* the page mounts.
AbiPlain == JsonStringify2(JArr(<<JStr(<<FnGet>>), JStr(<<FnPay>>)>>))

InitWallet ==
    /\ lsAbiList = Compact(JArr(<<SavedAbi(<<"Plain">>, AbiPlain)>>))
    /\ lsCurrentAbi = AbiPlain
    /\ InitAm /\ InitTd /\ InitPureIdle
    /\ win \in WalletConfigs
    /\ InitCi /\ InitTools

NextWallet ==
    \/ CiMount /\ UNCHANGED notCi
    \/ CiOpenWalletModal /\ UNCHANGED notCi
    \/ CiCloseWalletModal /\ UNCHANGED notCi
    \/ CiWalletModalOkx /\ UNCHANGED notCi
    \/ \E approved \in BOOLEAN : CiConnectSettle(approved) /\ UNCHANGED notCi
    \/ \E nextChainId \in ChainPayloads : CiChainChanged(nextChainId) /\ UNCHANGED notCi
    \/ \E accounts \in AccountPayloads : CiAccountsChanged(accounts) /\ UNCHANGED notCi
    \/ \E outcome \in {"then", "effect", "handler"} : CiGetNetworkSettle(outcome) /\ UNCHANGED notCi
    \/ \E answered \in BOOLEAN : CiRefreshNetwork(answered, <<"0x", "1">>) /\ UNCHANGED notCi
    \/ \E signature \in Signatures : CiSelectFunction(signature) /\ UNCHANGED notCi
    \/ \E value \in AddressTexts : CiSetAddressInput(value) /\ UNCHANGED notCi
    \/ CiHandleCall /\ UNCHANGED notCi
    \/ \E resolved \in BOOLEAN : CiCallSettle(resolved) /\ UNCHANGED notCi
    \/ CiHandleSend /\ UNCHANGED notCi
    \/ \E signerGiven \in BOOLEAN : CiSendSigned(signerGiven) /\ UNCHANGED notCi
    \/ \E resolved \in BOOLEAN : CiSendSettle(resolved) /\ UNCHANGED notCi

SpecWallet == InitWallet /\ [][NextWallet]_vars

\* The function side of the page: OKX Wallet is injected and the wallet
\* raises no event; every stored ABI, function and value can be chosen.
InitCall ==
    /\ lsAbiList = Compact(StoredAbis)
    /\ lsCurrentAbi = <<>>
    /\ InitAm /\ InitTd /\ InitPureIdle
    /\ win = Window(TRUE, FALSE, FALSE)
    /\ InitCi /\ InitTools

NextCall ==
    \/ CiMount /\ UNCHANGED notCi
    \/ CiOpenWalletModal /\ UNCHANGED notCi
    \/ CiCloseWalletModal /\ UNCHANGED notCi
    \/ CiWalletModalOkx /\ UNCHANGED notCi
    \/ \E approved \in BOOLEAN : CiConnectSettle(approved) /\ UNCHANGED notCi
    \/ \E outcome \in {"then", "effect"} : CiGetNetworkSettle(outcome) /\ UNCHANGED notCi
    \/ \E index \in {NullIndex, 0, 1} : CiHandleSelectAbi(index) /\ UNCHANGED notCi
    \/ \E signature \in Signatures : CiSelectFunction(signature) /\ UNCHANGED notCi
    \/ \E index \in ArgIndexes, value \in ArgTexts : CiSetArgInput(index, value) /\ UNCHANGED notCi
    \/ \E value \in PayableTexts : CiSetPayableValue(value) /\ UNCHANGED notCi
    \/ \E value \in AddressTexts : CiSetAddressInput(value) /\ UNCHANGED notCi
    \/ CiHandleCall /\ UNCHANGED notCi
    \/ \E resolved \in BOOLEAN : CiCallSettle(resolved) /\ UNCHANGED notCi
    \/ CiHandleSend /\ UNCHANGED notCi
    \/ \E signerGiven \in BOOLEAN : CiSendSigned(signerGiven) /\ UNCHANGED notCi
    \/ \E resolved \in BOOLEAN : CiSendSettle(resolved) /\ UNCHANGED notCi

SpecCall == InitCall /\ [][NextCall]_vars

(***************************************************************************)
(* Helper checks: a text is drawn, then one helper is applied to it.       *)
(***************************************************************************)
InitPure ==
    /\ input \in PureInputs
    /\ applied = ""
    /\ output = JNull
    /\ InitStorage /\ InitAm /\ InitTd
    /\ win = NoWallet /\ InitCi /\ InitTools

ApplyParseInputValue ==
    /\ applied = ""
    /\ applied' = "parseInputValue"
    /\ output' = parseInputValue(input)
    /\ UNCHANGED input

\* handleCall / handleSend build the argument list of a function from the
\* input fields: the drawn text is field number pos, the other field holds
\* "false", and only the first len fields have been typed into.
ApplyBuildArgs ==
    /\ applied = ""
    /\ \E w \in {FnSet, FnGet}, pos \in 1..2, len \in 0..2 :
         LET fields == [k \in 1..len |-> IF k = pos THEN input ELSE <<"false">>]
             fn == FunctionInfo(w)
         IN  /\ applied' = "buildArgs"
             /\ output' = [fn |-> fn, fields |-> fields, args |-> buildArgs(fn, fields)]
    /\ UNCHANGED input

\* the useMemo chain of the interaction page: abi, functions, read / write
ApplyParseAbiJson ==
    /\ applied = ""
    /\ applied' = "parseAbiJson"
    /\ \E strict \in BOOLEAN :
       LET r == parseAbiJson(input)
           fns == functions(r.abi, strict)
       IN  output' = [abi |-> r.abi, error |-> r.error, strict |-> strict,
                      functions |-> fns,
                      readFunctions |-> readFunctions(fns),
                      writeFunctions |-> writeFunctions(fns)]
    /\ UNCHANGED input

ApplyNormalizeAbiInput ==
    /\ applied = ""
    /\ applied' = "normalizeAbiInput"
    /\ output' = normalizeAbiInput(input)
    /\ UNCHANGED input

NextPure ==
    \/ ApplyParseInputValue /\ UNCHANGED notPure
    \/ ApplyBuildArgs /\ UNCHANGED notPure
    \/ ApplyParseAbiJson /\ UNCHANGED notPure
    \/ ApplyNormalizeAbiInput /\ UNCHANGED notPure

SpecPure == InitPure /\ [][NextPure]_vars

(***************************************************************************)
(* Claims about the helpers (checked under SpecPure)                       *)
(***************************************************************************)
\* The typed value the mapping of free text to arguments is meant to give.
TypedValueOf(text) ==
    LET t == Trim(text)
    IN  CASE t = <<"true">> -> JBool(TRUE)
          [] t = <<"false">> -> JBool(FALSE)
          [] (StartsWith(t, "{") \/ StartsWith(t, "[")) /\ JsonParse(t).ok -> JsonParse(t).v
          [] OTHER -> JStr(t)

\* C3: parseInputValue maps every text to a typed value (it never throws):
\* trimmed "true" / "false" give the booleans, a trimmed text starting with
\* "{" or "[" gives its JSON value when it is valid JSON and the trimmed
\* string when it is not, every other text gives the trimmed string; and the
\* k-th argument passed to the contract function is parseInputValue of the
\* k-th input field of the selected function, in order.
C3_ArgumentsTyped ==
    /\ applied = "parseInputValue" =>
         /\ output = TypedValueOf(input)
         /\ output.t \in {"bool", "str", "arr", "obj"}
    /\ applied = "buildArgs" =>
         /\ Len(output.args) = Len(output.fn.inputs)
         /\ \A k \in 1..Len(output.fn.inputs) :
              output.args[k] =
                  TypedValueOf(IF k <= Len(output.fields) THEN output.fields[k] ELSE <<>>)

\* C3 witness: a two-argument call whose first field is padded text that
\* starts with "[" and is not valid JSON, and whose second field is "false".
C3_Witness ==
    /\ applied = "buildArgs"
    /\ Len(output.args) = 2
    /\ Len(output.fields) = 2
    /\ StartsWith(Trim(output.fields[1]), "[")
    /\ output.fields[1] # Trim(output.fields[1])
    /\ ~JsonParse(Trim(output.fields[1])).ok
    /\ output.args[1] = JStr(Trim(output.fields[1]))
    /\ output.args[2] = JBool(FALSE)

\* C4: parseAbiJson never throws and returns a JSON array with an empty
\* error, or null with "ABI must be an array" for valid JSON that is no
\* array, or null with "ABI JSON parse failed" for invalid JSON, or null with
\* an empty error for blank text; the derived function list is empty
\* whenever the ABI is null or the Interface cannot be built from it.
C4_AbiParseTotal ==
    applied = "parseAbiJson" =>
        LET t == Trim(input)
            p == JsonParse(t)
        IN  /\ t = <<>> => output.abi = JNull /\ output.error = ""
            /\ t # <<>> /\ ~p.ok => output.abi = JNull /\ output.error = ErrAbiParse
            /\ t # <<>> /\ p.ok /\ ~IsArray(p.v) =>
                   output.abi = JNull /\ output.error = ErrAbiNotArray
            /\ t # <<>> /\ p.ok /\ IsArray(p.v) =>
                   output.abi = p.v /\ output.error = ""
            /\ output.abi = JNull \/ IsArray(output.abi)
            /\ output.abi = JNull => output.functions = <<>>
            /\ IsArray(output.abi) /\ InterfaceThrows(output.abi, output.strict) =>
                   output.functions = <<>>

\* C4 witness: a padded text that parses to an array the Interface rejects.
C4_Witness ==
    /\ applied = "parseAbiJson"
    /\ input # Trim(input)
    /\ IsArray(output.abi)
    /\ output.error = ""
    /\ InterfaceThrows(output.abi, output.strict)
    /\ output.functions = <<>>

\* s is a subsequence of t (same elements, same relative order)
RECURSIVE IsSubsequence(_, _)
IsSubsequence(s, t) ==
    IF s = <<>> THEN TRUE
    ELSE IF t = <<>> THEN FALSE
    ELSE IF Head(s) = Head(t) THEN IsSubsequence(Tail(s), Tail(t))
    ELSE IsSubsequence(s, Tail(t))

NumberOf(seq, Test(_)) == Cardinality({i \in 1..Len(seq) : Test(seq[i])})

\* C5: the function metadata is a partition: every fragment of type
\* "function" is in exactly one of readFunctions (view, pure) and
\* writeFunctions (every other mutability), in ABI order; no fragment of
\* another type is in either list; the two lengths add up to that of functions.
C5_FunctionPartition ==
    (applied = "parseAbiJson" /\ IsArray(output.abi)
        /\ ~InterfaceThrows(output.abi, output.strict)) =>
        LET words == InterfaceFragments(output.abi)
            fnWords == SelectSeq(words, LAMBDA w : FragmentType(w) = "function")
            rd == output.readFunctions
            wr == output.writeFunctions
            names(seq) == [i \in 1..Len(seq) |-> seq[i].name]
        IN  /\ names(output.functions) = fnWords
            /\ Len(rd) + Len(wr) = Len(output.functions)
            /\ IsSubsequence(rd, output.functions)
            /\ IsSubsequence(wr, output.functions)
            /\ \A i \in 1..Len(rd) : rd[i].stateMutability \in {"view", "pure"}
            /\ \A i \in 1..Len(wr) : wr[i].stateMutability \notin {"view", "pure"}
            /\ \A w \in FragmentWords :
                 LET inRd == NumberOf(rd, LAMBDA fn : fn.name = w)
                     inWr == NumberOf(wr, LAMBDA fn : fn.name = w)
                     inAbi == NumberOf(words, LAMBDA x : x = w)
                 IN  IF FragmentType(w) = "function"
                     THEN /\ inRd + inWr = inAbi
                          /\ inRd = 0 \/ inWr = 0
                     ELSE inRd = 0 /\ inWr = 0

\* C5 witness: an ABI with an event and a pure function.
C5_Witness ==
    /\ applied = "parseAbiJson"
    /\ IsArray(output.abi)
    /\ Len(output.abi.items) = 2
    /\ ~InterfaceThrows(output.abi, output.strict)
    /\ output.abi.items[1].txt = <<EvLog>>
    /\ output.abi.items[2].txt = <<FnOne>>
    /\ Len(output.readFunctions) = 1
    /\ Len(output.writeFunctions) = 0

\* the array a member value holds, directly or as a string of JSON
HoldsArray(v) == IsArray(v) \/ (IsString(v) /\ IsArray(JsonParse(v.txt).v))

ArrayHeld(v) == IF IsArray(v) THEN v ELSE JsonParse(v.txt).v

NormalizeCases(resultNeedsNoAbi) ==
    applied = "normalizeAbiInput" =>
        LET t == Trim(input)
            p == JsonParse(t)
        IN  /\ t = <<>> => output.error = ErrAbiEmpty
            /\ t # <<>> => output.error = ""
            /\ t # <<>> /\ ~p.ok => output.abiText = t
            /\ p.ok /\ IsArray(p.v) => output.abiText = JsonStringify2(p.v)
            /\ p.ok /\ IsString(p.v) /\ IsArray(JsonParse(p.v.txt).v) =>
                   output.abiText = JsonStringify2(JsonParse(p.v.txt).v)
            /\ p.ok /\ HasKey(p.v, KeyAbi) /\ IsArray(Member(p.v, KeyAbi)) =>
                   output.abiText = JsonStringify2(Member(p.v, KeyAbi))
            /\ (/\ p.ok
                /\ HasKey(p.v, KeyResult)
                /\ HoldsArray(Member(p.v, KeyResult))
                /\ resultNeedsNoAbi => ~HasKey(p.v, KeyAbi)) =>
                   output.abiText = JsonStringify2(ArrayHeld(Member(p.v, KeyResult)))

\* C7 as stated: for every non-blank input normalizeAbiInput returns the
\* pretty-printed ABI array when the input is (a) a JSON array, (b) a JSON
\* string that encodes a JSON array, (c) a JSON object with an "abi" member
\* holding the array, or (d) a JSON object with a "result" member holding
\* the array or a JSON string of it; input that is not JSON comes back
\* trimmed; blank input gives the error "please enter the ABI content".
C7_AsStated == NormalizeCases(FALSE)

\* C7 amended: as stated, with (d) restricted to objects that have no "abi"
\* member (the "abi" member is looked at first, whatever it holds).
C7_NormalizeAbiInput == NormalizeCases(TRUE)

\* C7 witness: an Etherscan API answer whose "result" is a string of the array.
C7_Witness ==
    /\ applied = "normalizeAbiInput"
    /\ JsonParse(Trim(input)).ok
    /\ HasKey(JsonParse(Trim(input)).v, <<"status">>)
    /\ HasKey(JsonParse(Trim(input)).v, KeyResult)
    /\ IsString(Member(JsonParse(Trim(input)).v, KeyResult))
    /\ output.abiText = JsonStringify2(JArr(<<JStr(<<FnGet>>)>>))

(***************************************************************************)
(* Claims about the ABI manager (checked under SpecAM)                     *)
(***************************************************************************)
\* the entries JSON.parse finds in the text under "abiList"
StoredEntries == JsonParse(lsAbiList).v

\* C8: after each AbiManager operation that changes the list, the value
\* stored under "abiList" equals the manager's in-memory savedAbis, and a
\* transaction-decoder or contract-interaction page mounted afterwards loads
\* exactly that list, same entries in the same order.
C8_ListShared ==
    /\ (am_mounted[1] /\ lsAbiList # <<>>) =>
          /\ JsonParse(lsAbiList).ok
          /\ StoredEntries = am_savedAbis[1]
    /\ (am_mounted[1] /\ td_mounted) => td_savedAbis = am_savedAbis[1]
    /\ (am_mounted[1] /\ ci_mounted) => ci_savedAbis = am_savedAbis[1]

\* C8 witness: the decoder page has loaded a list of two different entries,
\* one of them a pretty-printed ABI (quotes and line breaks in the text).
C8_Witness ==
    /\ am_mounted[1]
    /\ td_mounted
    /\ Len(td_savedAbis.items) = 2
    /\ td_savedAbis = am_savedAbis[1]
    /\ td_savedAbis.items[1] # td_savedAbis.items[2]
    /\ \E i \in 1..2 : \E k \in 1..Len(ItemAbi(td_savedAbis.items[i])) :
          ItemAbi(td_savedAbis.items[i])[k] = NL

\* C9 as stated: no AbiManager operation ever stores an entry whose name is
\* blank or whose abi text is empty.
C9_NoBlankEntry ==
    \A i \in 1..Len(StoredEntries.items) :
        /\ Trim(ItemName(StoredEntries.items[i])) # <<>>
        /\ ItemAbi(StoredEntries.items[i]) # <<>>

(***************************************************************************)
(* Claims about the wallet side of the page (checked under SpecWallet)     *)
(***************************************************************************)
\* number of wallet objects injected in the window
InjectedCount(w) ==
    Cardinality({k \in {"okxwallet", "okxEthereum", "ethereum"} : w[k]})

HasOkx(w) == w.okxwallet \/ w.okxEthereum

\* a step in which handleCall or handleSend hands a request to the wallet
Dispatches ==
    \/ CiHandleCall /\ ci_call'.stage = "call"
    \/ CiSendSigned(TRUE) /\ ci_call'.stage = "tx"

\* C1 as stated: in each window with exactly one wallet object injected the
\* connect flow gets through to it: choosing the wallet in the connect dialog
\* starts handleConnect on the injected object.
C1_AnyInjectedConnects ==
    [][(InjectedCount(win) = 1 /\ CiWalletModalOkx) =>
          (ci_connect'.pending /\ ci_connect'.via = getInjectedProvider(win))]_vars

\* C1, amended: in each window where window.okxwallet or
\* window.okxwallet.ethereum is injected, choosing the wallet in the connect
\* dialog starts handleConnect on that object; when the wallet approves,
\* provider and account are both set; the provider is never another object;
\* handleCall and handleSend hand their requests to that object.  Without an
\* OKX object the dialog answers "OKX Wallet not detected" and no
\* handleConnect is started.
C1_OkxConnects ==
    /\ [](HasOkx(win) => ci_provider \in {NoProvider, getOkxProvider(win)})
    /\ [][(HasOkx(win) /\ CiWalletModalOkx) =>
             (ci_connect'.pending /\ ci_connect'.via = getOkxProvider(win))]_vars
    /\ [][(~HasOkx(win) /\ CiWalletModalOkx) =>
             (~ci_connect'.pending /\ ci_errorMessage' = ErrNoOkx)]_vars
    /\ [][(HasOkx(win) /\ CiConnectSettle(TRUE)) =>
             (ci_provider' = getOkxProvider(win) /\ ci_account' # "")]_vars
    /\ [][(HasOkx(win) /\ Dispatches) =>
             (ci_sent'.via = getOkxProvider(win) /\ ci_sent'.via # NoProvider)]_vars

\* C1 witness: only window.okxwallet.ethereum is injected, the page is
\* connected through it and handleSend has sent a transaction through it.
C1_Witness ==
    /\ win = Window(FALSE, TRUE, FALSE)
    /\ ci_provider = OkxEthereum
    /\ ci_account = WalletAccount
    /\ ci_sent.handler = "handleSend"
    /\ ci_sent.method = "eth_sendTransaction"
    /\ ci_sent.via = OkxEthereum

\* C6 as stated: while no OKX object is injected the provider state stays
\* null and no contract request is handed to window.ethereum (every
\* handleCall and handleSend stops at "please connect the wallet first").
C6_OnlyOkx ==
    ~HasOkx(win) => (ci_provider = NoProvider /\ ci_sent = NoRequest)

(***************************************************************************)
(* Claims about the function side of the page (checked under SpecCall)     *)
(***************************************************************************)
\* C2 as stated: handleCall dispatches a function exactly when it is view or
\* pure, handleSend exactly when it is anything else.
C2_DispatchByMutability ==
    /\ ci_sent.handler = "handleCall" => IsReadMutability(ci_sent.fn.stateMutability)
    /\ ci_sent.handler = "handleSend" => ~IsReadMutability(ci_sent.fn.stateMutability)
    /\ ci_call.stage \in {"signer", "tx"} => ~IsReadMutability(ci_call.fn.stateMutability)

\* C10: handleSend attaches a value override exactly when the selected
\* function is payable and the value field is not blank (the amount is the
\* trimmed field in wei); selecting a function blanks the value field; a
\* value is only ever sent with the function it was typed for.
C10_ValueBoundToFunction ==
    /\ [](Trim(ci_payableValue) # <<>> => ci_valueFor = ci_selectedSignature)
    /\ [][ci_selectedSignature' # ci_selectedSignature => ci_payableValue' = <<>>]_vars
    /\ [][(CiHandleSend /\ ci_call'.stage = "signer") =>
             /\ ci_call'.payableValue = ci_payableValue
             /\ ci_call'.fn = selectedFunctionOf(CiFunctions, ci_selectedSignature)]_vars
    /\ [][(CiSendSigned(TRUE) /\ ci_call'.stage = "tx") =>
             /\ ci_sent'.hasValue <=>
                   (ci_call.fn.stateMutability = "payable"
                       /\ Trim(ci_call.payableValue) # <<>>)
             /\ ci_sent'.hasValue =>
                   /\ ci_sent'.value = parseEther(Trim(ci_call.payableValue))
                   /\ ci_sent'.fn.signature = ci_call.valueFor
             /\ ~ci_sent'.hasValue => ci_sent'.value = <<>>]_vars

\* C10 witness: handleSend has sent pay() with the value typed for it, and
\* the field has since been blanked by selecting get().
C10_Witness ==
    /\ ci_sent.handler = "handleSend"
    /\ ci_sent.fn.signature = "pay()"
    /\ ci_sent.hasValue
    /\ ci_sent.value = parseEther(<<"1">>)
    /\ ci_selectedSignature = "get()"
    /\ ci_payableValue = <<>>

(***************************************************************************)
(* The address tools: the calculator and the converter, typed into         *)
(***************************************************************************)
\* address texts a user types: with and without prefix, in every case
\* form, padded, with a wrong checksum, a second address, blank
ToolAddressTexts ==
    {<<SP>>, <<"c0ffee">>, <<"0x", "c0ffee">>, <<SP, "0x", "C0ffEE", SP>>,
     <<"C0FFEE">>, <<"0x", "c0FFee">>, <<"0X", "c0ffee">>, <<"dead">>}

ToolNonceTexts ==
    {<<SP>>, <<"1">>, <<"1", "0">>, <<"0", "x", "1", "0">>, <<"0", "X", "a">>,
     <<"0", "x">>, <<"0", "x", "g">>, <<"-", "1">>, <<"1", SP>>}

notTools == <<lsvars, amvars, tdvars, civars, purevars>>

InitToolPages ==
    /\ InitStorage /\ InitAm /\ InitTd /\ InitPureIdle
    /\ win = NoWallet /\ InitCi /\ InitTools

NextTools ==
    \/ \E v \in ToolAddressTexts : CaSetAddressInput(v) /\ UNCHANGED <<acvars, notTools>>
    \/ \E v \in ToolNonceTexts : CaSetNonceInput(v) /\ UNCHANGED <<acvars, notTools>>
    \/ \E v \in ToolAddressTexts : AcSetAddressInput(v) /\ UNCHANGED <<cavars, notTools>>

SpecTools == InitToolPages /\ [][NextTools]_vars

(***************************************************************************)
(* parseNonceInput applied to every short text over the characters below   *)
(***************************************************************************)
\* longest nonce text
MaxNonceChars == 4

NonceChars == {SP, "0", "1", "a", "F", "g", "x", "X", "-"}

RECURSIVE NonceTexts(_)
NonceTexts(n) ==
    IF n = 0 THEN {<<>>}
    ELSE LET prev == NonceTexts(n - 1)
         IN  prev \cup {Append(t, c) : t \in {p \in prev : Len(p) = n - 1},
                                        c \in NonceChars}

InitNonce ==
    /\ input \in NonceTexts(MaxNonceChars)
    /\ applied = ""
    /\ output = JNull
    /\ InitStorage /\ InitAm /\ InitTd
    /\ win = NoWallet /\ InitCi /\ InitTools

ApplyParseNonceInput ==
    /\ applied = ""
    /\ applied' = "parseNonceInput"
    /\ output' = parseNonceInput(input)
    /\ UNCHANGED input

NextNonce == ApplyParseNonceInput /\ UNCHANGED notPure

SpecNonce == InitNonce /\ [][NextNonce]_vars

(***************************************************************************)
(* Claims about the address tools                                          *)
(***************************************************************************)
RECURSIVE Power(_, _)
Power(b, e) == IF e = 0 THEN 1 ELSE b * Power(b, e - 1)

RECURSIVE PositionalValue(_, _)
PositionalValue(digits, radix) ==
    IF digits = <<>> THEN 0
    ELSE CharValue(Head(digits)) * Power(radix, Len(digits) - 1)
            + PositionalValue(Tail(digits), radix)

\* C12: parseNonceInput returns the numeric value, a non-negative integer,
\* exactly for a trimmed text of decimal digits or of 0x / 0X followed by
\* one or more hex digits; a blank text gives no value and no error; every
\* other text gives no value and the error of its case: empty for a bare
\* prefix, hex for a bad hex body, non-negative integer otherwise.
C12_NonceParsed ==
    applied = "parseNonceInput" =>
        LET t == Trim(input)
            prefixed == Len(t) >= 2 /\ t[1] = "0" /\ t[2] \in {"x", "X"}
            body == SubSeq(t, 3, Len(t))
            isDecimal == t # <<>> /\ \A k \in 1..Len(t) : t[k] \in {"0", "1"}
            isHex == /\ prefixed /\ body # <<>>
                     /\ \A k \in 1..Len(body) : body[k] \in {"0", "1", "a", "F"}
        IN  /\ ~output.isNull <=> (isDecimal \/ isHex)
            /\ isDecimal =>
                   output.value = PositionalValue(t, 10) /\ output.error = ""
            /\ isHex =>
                   output.value = PositionalValue(body, 16) /\ output.error = ""
            /\ output.value >= 0
            /\ t = <<>> => output.isNull /\ output.error = ""
            /\ (t # <<>> /\ ~isDecimal /\ ~isHex) =>
                   /\ output.isNull
                   /\ output.error =
                          IF prefixed /\ body = <<>> THEN ErrNonceEmpty
                          ELSE IF prefixed THEN ErrNonceHex
                          ELSE ErrNonceNonNegative

\* a 0X-prefixed hex text has been parsed to its value
C12_Witness ==
    /\ applied = "parseNonceInput"
    /\ input = <<"0", "X", "1", "F">>
    /\ ~output.isNull /\ output.value = 31

\* C11: after every change of the address or nonce field of the
\* calculator, derivedAddress is the CREATE address of the current
\* (address, nonce) pair when the address text normalizes to a valid
\* address and the nonce text parses to a value, and empty otherwise; it is
\* empty whenever an error is set, and at most one error is set.
C11_DerivedFromCurrentInputs ==
    LET from == getAddress(normalizeAddressInput(ca_addressInput))
        nonce == parseNonceInput(ca_nonceInput)
    IN  /\ ca_derivedAddress =
               IF from.ok /\ ~nonce.isNull
               THEN getCreateAddress(from.v, nonce.value)
               ELSE <<>>
        /\ (ca_addressError # "" \/ ca_nonceError # "") => ca_derivedAddress = <<>>
        /\ ~(ca_addressError # "" /\ ca_nonceError # "")

\* the address of a pair is shown after both fields were typed into
C11_Witness ==
    /\ ca_addressInput = <<"c0ffee">>
    /\ ca_nonceInput = <<"0", "x", "1", "0">>
    /\ ca_derivedAddress = <<"0x", "create", "C0ffEE", "16">>

\* C13: after every convertAddress the outputs agree: both empty, or both
\* set with solidityAddress = "address(" + checksumAddress + ")"; with an
\* error set both are empty; blank input gives empty outputs and no error.
C13_OutputsAgree ==
    /\ \/ ac_checksumAddress = <<>> /\ ac_solidityAddress = <<>>
       \/ /\ ac_checksumAddress # <<>>
          /\ ac_solidityAddress = <<"address(">> \o ac_checksumAddress \o <<")">>
    /\ ac_addressError # "" => (ac_checksumAddress = <<>> /\ ac_solidityAddress = <<>>)
    /\ Trim(ac_addressInput) = <<>> =>
           /\ ac_checksumAddress = <<>> /\ ac_solidityAddress = <<>>
           /\ ac_addressError = ""

\* an upper-case address has been converted
C13_Witness ==
    /\ ac_addressInput = <<"C0FFEE">>
    /\ ac_checksumAddress = <<"0x", "C0ffEE">>
    /\ ac_solidityAddress = <<"address(", "0x", "C0ffEE", ")">>

(***************************************************************************)
(* Claims about the handlers of the contract-interaction page              *)
(***************************************************************************)
\* the message of the first check that fails in the order provider,
\* function, arguments, address, ABI; "" when none fails
FirstFailedCheck ==
    LET fn == selectedFunctionOf(CiFunctions, ci_selectedSignature)
        typed == IF fn = NoFunction THEN <<>> ELSE ci_argInputs[fn.signature]
        failed ==
            <<ci_provider = NoProvider,
              fn = NoFunction,
              \E k \in 1..Len(fn.inputs) :
                  k > Len(typed) \/ Trim(typed[k]) = <<>>,
              Trim(ci_addressInput) = <<>>,
              CiAbi = JNull>>
        messages ==
            <<ErrConnectFirst, ErrSelectFunction, ErrFillParams, ErrNoAddress,
              ErrSelectAbi>>
    IN  IF \E k \in 1..5 : failed[k]
        THEN messages[CHOOSE k \in 1..5 : failed[k] /\ \A j \in 1..(k - 1) : ~failed[j]]
        ELSE ""

\* C14: handleCall and handleSend show the error of the first failed check
\* in the order provider, function, arguments, address, ABI; when a check
\* fails nothing is dispatched and isLoading is false.
C14_FirstFailedCheckShown ==
    [][((CiHandleCall \/ CiHandleSend) /\ FirstFailedCheck # "") =>
          /\ ci_errorMessage' = FirstFailedCheck
          /\ ci_sent' = ci_sent
          /\ ci_call' = NoCall
          /\ ~ci_isLoading']_vars

\* connected, a function selected, an argument and the address both
\* missing: the argument message is shown and nothing was sent
C14_Witness ==
    /\ ci_provider # NoProvider
    /\ ci_selectedSignature # ""
    /\ Trim(ci_addressInput) = <<>>
    /\ ci_errorMessage = ErrFillParams
    /\ ci_sent = NoRequest /\ ci_call = NoCall /\ ~ci_isLoading

\* the outputs are as resetOutputs and setIsLoading(true) of the running
\* handler left them: nothing else has touched them since the click
OutputsUntouched ==
    /\ ci_isLoading
    /\ ci_errorMessage = "" /\ ci_resultOutput = <<>> /\ ci_txHash = <<>>

\* C15: a handleCall or handleSend that runs to completion undisturbed
\* leaves consistent outputs: a successful call resultOutput only, a
\* successful send the transaction hash only, a failure the error message
\* only; isLoading is false afterwards.
C15_OutputsConsistent ==
    [][/\ (OutputsUntouched /\ CiCallSettle(TRUE)) =>
              /\ ci_resultOutput' # <<>> /\ ci_txHash' = <<>>
              /\ ci_errorMessage' = "" /\ ~ci_isLoading'
       /\ (OutputsUntouched /\ CiSendSettle(TRUE)) =>
              /\ ci_txHash' = TxHash /\ ci_resultOutput' = <<>>
              /\ ci_errorMessage' = "" /\ ~ci_isLoading'
       /\ (OutputsUntouched /\ (CiCallSettle(FALSE) \/ CiSendSettle(FALSE)
                                   \/ (CiSendSigned(FALSE) /\ ci_call' = NoCall)
                                   \/ (CiSendSigned(TRUE) /\ ci_call' = NoCall))) =>
              /\ ci_errorMessage' \in {ErrCallFailed, ErrSendFailed}
              /\ ci_resultOutput' = <<>> /\ ci_txHash' = <<>>
              /\ ~ci_isLoading'
       /\ ((CiHandleCall \/ CiHandleSend) /\ FirstFailedCheck = ""
              /\ ci_call' = NoCall) =>
              /\ ci_errorMessage' \in {ErrCallFailed, ErrSendFailed}
              /\ ci_resultOutput' = <<>> /\ ci_txHash' = <<>>
              /\ ~ci_isLoading']_vars

\* the connection as the page holds it, and the dialog
Connection == <<ci_provider, ci_account, ci_networkName, ci_chainId>>

\* C16: handleConnect is all-or-nothing: when the wallet steps succeed it
\* sets provider, account, networkName and chainId together and closes the
\* wallet dialog; when one fails it sets the error message and leaves the
\* four and the dialog as they were; its part before the first await leaves
\* them as they were too.
C16_ConnectAllOrNothing ==
    [][/\ CiConnectSettle(TRUE) =>
              /\ ci_provider' = ci_connect.via /\ ci_provider' # NoProvider
              /\ ci_account' = WalletAccount
              /\ ci_networkName' = WalletNetwork.name
              /\ ci_chainId' = WalletNetwork.chainId
              /\ ~ci_isWalletModalOpen'
       /\ CiConnectSettle(FALSE) =>
              /\ ci_errorMessage' = ErrConnectFailed
              /\ UNCHANGED <<Connection, ci_isWalletModalOpen>>
       /\ CiWalletModalOkx => UNCHANGED <<Connection, ci_isWalletModalOpen>>]_vars

\* a second attempt has failed on a connected page: the connection of the
\* first attempt is still there and the dialog is still open
C16_Witness ==
    /\ ci_errorMessage = ErrConnectFailed
    /\ ~ci_connect.pending
    /\ ci_provider # NoProvider /\ ci_account = WalletAccount
    /\ ci_networkName = WalletNetwork.name /\ ci_chainId = WalletNetwork.chainId
    /\ ci_isWalletModalOpen

\* C17: accountsChanged with an empty list disconnects the page (account
\* empty, provider null, networkName empty, chainId null); with a non-empty
\* list it sets account to the first element and leaves provider,
\* networkName and chainId unchanged.
C17_AccountsChanged ==
    [][\A accounts \in AccountPayloads :
          CiAccountsChanged(accounts) =>
              IF accounts = <<>>
              THEN /\ ci_account' = "" /\ ci_provider' = NoProvider
                   /\ ci_networkName' = <<>> /\ ci_chainId' = NoChain
              ELSE /\ ci_account' = Head(accounts)
                   /\ UNCHANGED <<ci_provider, ci_networkName, ci_chainId>>]_vars

\* the page held a provider and an empty account list has taken it away
\* while the network request of that provider was still outstanding
C17_Witness ==
    /\ ci_mounted /\ ci_getNetwork
    /\ ci_account = "" /\ ci_provider = NoProvider
    /\ ci_networkName = <<>> /\ ci_chainId = NoChain

(***************************************************************************)
(* The transaction decoder: the constructor panel with a stored ABI list   *)
(***************************************************************************)
\* a JSON ABI with a constructor that takes one uint256
CtorItem ==
    JObj(<<KeyType, KeyInputs>>,
         <<JStr(<<"constructor">>),
           JArr(<<JObj(<<KeyType>>, <<JStr(<<"uint256">>)>>)>>)>>)

AbiCtor == Compact(JArr(<<CtorItem>>))

\* a stored text that is JSON but no array
AbiNoArray == Compact(JObj(<<<<"status">>>>, <<JNum(<<"1">>)>>))

DecoderAbis == JArr(<<SavedAbi(<<"Token">>, AbiCtor), SavedAbi(<<"Status">>, AbiNoArray)>>)

\* creation code followed by the encoded arguments, with and without
\* prefix and white space; the creation code alone; the arguments alone
DataTexts ==
    {<<"0x", "6080">> \o EncodedArgs, <<"6080", SP>> \o EncodedArgs,
     <<"0x", "6080">>, <<"0x">> \o EncodedArgs}

BytecodeTexts == {<<>>, <<"0x", "6080">>, <<"6080">>, <<"0x">>}

\* what a step that may write localStorage leaves alone
notTdLs == <<amvars, civars, purevars, toolvars>>

\* the list holds the two ABIs; the current ABI is a human-readable one
\* that has since been deleted from the list
InitDecoder ==
    /\ lsAbiList = Compact(DecoderAbis)
    /\ lsCurrentAbi = AbiPlain
    /\ InitAm /\ InitTd /\ InitPureIdle
    /\ win = NoWallet /\ InitCi /\ InitTools

NextDecoder ==
    \/ TdMount /\ UNCHANGED notTd
    \/ \E index \in {NullIndex} \cup 0..(MaxAbis - 1) :
          TdHandleSelectAbi(index) /\ UNCHANGED notTdLs
    \/ \E v \in DataTexts : TdSetConstructorData(v) /\ UNCHANGED notTdLs
    \/ \E v \in BytecodeTexts : TdSetBytecode(v) /\ UNCHANGED notTdLs
    \/ TdDecodeConstructor /\ UNCHANGED notTdLs

SpecDecoder == InitDecoder /\ [][NextDecoder]_vars

\* C18: with a valid array ABI (here: one that declares a constructor) and
\* an empty bytecode field decodeConstructor proceeds to decode the data
\* (it calls decodeDeployData) instead of rejecting the request with the
\* bytecode message.
C18_EmptyBytecodeDecodes ==
    [][(/\ TdDecodeConstructor
        /\ JsonParse(td_abi).ok /\ IsArray(JsonParse(td_abi).v)
        /\ FindConstructor(JsonParse(td_abi).v.items, 1).found
        /\ td_bytecode = <<>>) =>
          (td_deploy'.called /\ td_error' # ErrTdBytecode)]_vars

(***************************************************************************)
(* Two tabs with the ABI manager page on one localStorage                  *)
(***************************************************************************)
\* the name the user of tab m types
TabName(m) == IF m = 1 THEN <<"ERC20">> ELSE <<"Vault">>

\* the ABI text both users work with, as normalizeAbiInput writes it
TabAbiText == JsonStringify2(JArr(<<JStr(<<FnGet>>)>>))

\* the file the user of tab m drops
TabFile(m) ==
    [name |-> TabName(m) \o <<".json">>, text |-> TabAbiText, readable |-> TRUE]

InitTabs ==
    /\ InitStorage /\ InitAm /\ InitTd /\ InitPureIdle
    /\ win = NoWallet /\ InitCi /\ InitTools

\* every step is a step of one of the two tabs; the tabs do not hear of each
\* other (the page registers no storage listener)
NextTabs ==
    \/ (\E m \in AllManagers : AmMount(m)) /\ UNCHANGED notAm
    \/ (\E m \in AllManagers : AmSetAbiName(m, TabName(m))) /\ UNCHANGED notAm
    \/ (\E m \in AllManagers : AmSetAbiInput(m, TabAbiText)) /\ UNCHANGED notAm
    \/ (\E m \in AllManagers : \E index \in 0..(MaxAbis - 1) : AmHandleSelect(m, index))
          /\ UNCHANGED notAm
    \/ (\E m \in AllManagers : AmHandleSave(m)) /\ UNCHANGED notAm
    \/ (\E m \in AllManagers : AmHandleSaveAsNew(m)) /\ UNCHANGED notAm
    \/ (\E m \in AllManagers : \E index \in 0..(MaxAbis - 1) : AmHandleDelete(m, index))
          /\ UNCHANGED notAm
    \/ (\E m \in AllManagers : AmHandleFileDrop(m, TabFile(m))) /\ UNCHANGED notAm
    \/ (\E m \in AllManagers : AmFileDropDone(m)) /\ UNCHANGED notAm

SpecTabs == InitTabs /\ [][NextTabs]_vars

\* the set of entries a page would load from the text stored under "abiList"
EntriesOf(stored) ==
    LET list == safeJsonParse(GetItemOr(stored, <<"[", "]">>), EmptyList)
    IN  {list.items[i] : i \in 1..Len(list.items)}

\* the step is the explicit delete of entry e in some tab
DeletesEntry(e) ==
    \E m \in AllManagers : \E index \in 0..(MaxAbis - 1) :
        /\ AmHandleDelete(m, index)
        /\ At(am_savedAbis[m], index) = e

\* the step is a save in some tab that overwrites entry e, the one selected
\* in that tab
OverwritesEntry(e) ==
    \E m \in AllManagers :
        /\ AmHandleSave(m)
        /\ am_selectedIndex[m] # NullIndex
        /\ HasIndex(am_savedAbis[m], am_selectedIndex[m])
        /\ At(am_savedAbis[m], am_selectedIndex[m]) = e

\* C19: an entry of localStorage "abiList" leaves the list only by the
\* explicit delete of that entry (or by the save that overwrites it as the
\* selected entry): no step of one tab discards an entry the other tab has
\* stored.
C19_OnlyDeleteRemoves ==
    [][\E before \in {EntriesOf(lsAbiList)} : \E after \in {EntriesOf(lsAbiList')} :
          \A e \in before : e \in after \/ DeletesEntry(e) \/ OverwritesEntry(e)]_vars

====
